---- MODULE Spec2Model ----
(***************************************************************************)
(* State-machine model of companion-module-nevion-videoipath:              *)
(*   - the payload parsers and delta appliers (videoipath/subscription.ts) *)
(*   - the RouterState store and the VideoIPath client (state.ts)          *)
(*   - the subscription loop: runSession, cleanup, pollOnce, retry         *)
(*   - the module instance: start/stop of the runtime and the commands     *)
(*     executeRoute / executeDisconnect (main.ts)                          *)
(*                                                                         *)
(* JavaScript Maps are modelled as sequences of [k, v] pairs (insertion    *)
(* order is observable through iteration) carried in an object             *)
(* [ref, val]: ref is the identity of the Map object, compared by ===.     *)
(* The fiber of the subscription loop is interruptible between any two     *)
(* yield* statements of runSession, except inside the finalizer.           *)
(***************************************************************************)
EXTENDS Integers, Sequences, FiniteSets, TLC

VARIABLES
    runtime,            \* this.runtime: "none" | "live" | "disposing"
    lifeOp,             \* host lifecycle call in progress
    status,             \* InstanceStatus last reported, with its reason
    session,            \* client sessionRef: NoSession or a session token
    endpointsRef,       \* RouterState endpointsRef: [ref, val]
    connectionsRef,     \* RouterState connectionsRef: [ref, val]
    pc,                 \* position of the subscription-loop fiber
    endpointSubId,      \* runSession local
    serviceSubId,       \* runSession local
    currentEndpoints,   \* runSession local: tracked reference
    currentConnections, \* runSession local: tracked reference
    endpointsChanged,   \* pollOnce local
    connectionsChanged, \* pollOnce local
    error,              \* failure the episode is ending with, or NoError
    interrupted,        \* an interruption is pending on the fiber
    attempt,            \* recurrence index of reconnectSchedule
    lastDelay,          \* delay of the last scheduled retry, in seconds before jitter
    cmd,                \* the last command invocation and its outcome
    obs,                \* observations of the current episode (callbacks, cleanup)
    tick,               \* observations of the current poll tick
    sched,              \* the retry schedule on its own: [n, base, ms]
    config,             \* this.config has host, username and password
    pendingData,        \* runSession local: initial payload not yet stored
    snap,               \* the last getSnapshot call and what the store held then
    calc,               \* the store driven alone: the last operation, its maps
    call,               \* the client driven alone: the last call and its outcome
    host                \* runtimes built and not disposed; lifecycle calls repeated

vars == <<runtime, lifeOp, status, session, endpointsRef, connectionsRef,
          pc, endpointSubId, serviceSubId, currentEndpoints, currentConnections,
          endpointsChanged, connectionsChanged, error, interrupted, attempt,
          lastDelay, cmd, obs, tick, sched, config, pendingData, snap, calc, call, host>>

(***************************************************************************)
(* Bounds of the model                                                     *)
(***************************************************************************)
MaxRefs == 1          \* Map identities 0..MaxRefs, kept up to renaming
MaxFailures == 2      \* failed episodes explored per supervisor
MaxSched == 8         \* recurrences of the retry schedule explored on its own

(***************************************************************************)
(* Values                                                                  *)
(***************************************************************************)
Absent == "absent"            \* undefined / missing JSON field
Null == "null"                \* null
NoSession == "nosession"
NoError == [tag |-> "none"]
NoRef == -1

DELETE_EVENT == "d"
UPDATE_EVENT == "e"

Min(a, b) == IF a <= b THEN a ELSE b

RECURSIVE Pow(_, _)
Pow(b, n) == IF n = 0 THEN 1 ELSE b * Pow(b, n - 1)

(***************************************************************************)
(* JavaScript Map, as an insertion-ordered sequence of entries             *)
(***************************************************************************)
Keys(m) == {m[i].k : i \in 1..Len(m)}

Has(m, key) == key \in Keys(m)

Get(m, key) == m[CHOOSE i \in 1..Len(m) : m[i].k = key].v

MapSet(m, key, val) ==
    IF Has(m, key)
    THEN [i \in 1..Len(m) |-> IF m[i].k = key THEN [k |-> key, v |-> val] ELSE m[i]]
    ELSE Append(m, [k |-> key, v |-> val])

MapDelete(m, key) == SelectSeq(m, LAMBDA en : en.k # key)

Values(m) == [i \in 1..Len(m) |-> m[i].v]

\* A Map object that is none of the objects in use.
NewRef(used) ==
    CHOOSE r \in 0..MaxRefs : r \notin used /\ \A q \in 0..MaxRefs : q \notin used => r <= q

\* Identities matter only through ===.  Once a step has compared them, the
\* Map it leaves in the store is renamed to identity 0: the store holds the
\* only reference that outlives the step, beside the copy the loop tracks.
Stored(m) == [ref |-> 0, val |-> m.val]

(***************************************************************************)
(* Payload parsers (subscription.ts).  A raw payload is modelled after the *)
(* tolerant walk to its collection node, as the sequence of the node's     *)
(* entries in Object.entries order.  An endpoint entry is                  *)
(*   [key, obj, e, gid, label, rawType, specType]                          *)
(* and a service entry is [key, obj, e, cid, rev, from, to, state, label]; *)
(* obj tells whether the entry value is a non-null object, e is its _e tag *)
(* and a missing field is Absent.  A connection label is a tuple of        *)
(* strings, <<>> when missing, so that the default "{from} -> {to}" can be *)
(* built.  nested tells whether the connection fields sit in a             *)
(* `connection` sub-object of the entry value (svc.connection ?? svc).     *)
(***************************************************************************)
\* A test that lets the empty string through.
nullish(x) == x = Absent \/ x = Null

Falsy(x) == x = Absent \/ x = Null \/ x = ""

Default(x, d) == IF x = Absent \/ x = Null THEN d ELSE x

EndpointTypeOf(rawType) ==
    IF rawType = "In" THEN "src"
    ELSE IF rawType = "Out" THEN "dst"
    ELSE IF rawType = "BiDirectional" THEN "both"
    ELSE Null

EndpointOf(x) ==
    [id |-> Default(x.gid, x.key),
     label |-> Default(x.label, x.key),
     endpointType |-> EndpointTypeOf(x.rawType),
     specificType |-> Default(x.specType, "unknown")]

RECURSIVE ParseEndpointsFrom(_, _, _)
ParseEndpointsFrom(entries, i, acc) ==
    IF i > Len(entries) THEN acc
    ELSE LET x == entries[i] IN
         IF ~x.obj \/ EndpointTypeOf(x.rawType) = Null
         THEN ParseEndpointsFrom(entries, i + 1, acc)
         ELSE ParseEndpointsFrom(entries, i + 1, MapSet(acc, EndpointOf(x).id, EndpointOf(x)))

parseEndpoints(entries) == ParseEndpointsFrom(entries, 1, <<>>)

ConnectionOf(x) ==
    [id |-> Default(x.cid, x.key),
     rev |-> Default(x.rev, ""),
     from |-> x.from,
     to |-> x.to,
     state |-> Default(x.state, "unknown"),
     label |-> IF x.label = <<>> THEN <<x.from, " -> ", x.to>> ELSE x.label]

RECURSIVE ParseConnectionsFrom(_, _, _)
ParseConnectionsFrom(entries, i, acc) ==
    IF i > Len(entries) THEN acc
    ELSE LET x == entries[i] IN
         IF ~x.obj \/ Falsy(x.from) \/ Falsy(x.to)
         THEN ParseConnectionsFrom(entries, i + 1, acc)
         ELSE ParseConnectionsFrom(entries, i + 1, MapSet(acc, ConnectionOf(x).id, ConnectionOf(x)))

parseConnections(entries) == ParseConnectionsFrom(entries, 1, <<>>)

\* The appliers parse one entry as parseEndpoints({[epId]: epData}), which
\* repeats the walk (root?.data ?? root, .status, .conman, .endpoints) on the
\* one-entry object: an entry named like a node of the path is walked into,
\* and the parser then iterates over the fields of the entry value.
EndpointWalkKeys == {"data", "status", "conman", "endpoints"}

ServiceWalkKeys == {"data", "status", "conman", "services"}

\* the object-valued fields of an endpoint value (generic, specific), as entries
EndpointFields(x) ==
    LET field(name) == [key |-> name, obj |-> TRUE, e |-> Absent, gid |-> Absent,
                        label |-> Absent, rawType |-> Absent, specType |-> Absent]
    IN <<field("generic"), field("specific")>>

\* the object-valued fields of a service value: its connection sub-object, which
\* then is the connection itself, or else generic, which has no from and no to
ServiceFields(x) ==
    IF x.nested
    THEN <<[x EXCEPT !.key = "connection", !.e = Absent, !.nested = FALSE]>>
    ELSE <<[key |-> "generic", obj |-> TRUE, e |-> Absent, cid |-> Absent, rev |-> Absent,
            from |-> Absent, to |-> Absent, state |-> Absent, label |-> <<>>,
            nested |-> FALSE]>>

\* the node parseEndpoints reaches from { [x.key]: value of x }
EndpointNode(x) == IF x.key \in EndpointWalkKeys THEN EndpointFields(x) ELSE <<x>>

\* the node parseConnections reaches from { [x.key]: value of x }
ServiceNode(x) == IF x.key \in ServiceWalkKeys THEN ServiceFields(x) ELSE <<x>>

endpointEquals(a, b) ==
    a.id = b.id /\ a.label = b.label /\ a.endpointType = b.endpointType
    /\ a.specificType = b.specificType

connectionEquals(a, b) ==
    a.id = b.id /\ a.rev = b.rev /\ a.from = b.from /\ a.to = b.to
    /\ a.state = b.state /\ a.label = b.label

(***************************************************************************)
(* Delta appliers.  A poll body is [kind |-> "null"], [kind |-> "scalar"]  *)
(* or [kind |-> "object", entries |-> ...].  The loop state is             *)
(* [updated, copied, changed]: copied tells whether `updated` was created  *)
(* (ensureUpdated), and until then updated is the current map.             *)
(***************************************************************************)
StartDelta(current) == [updated |-> current, copied |-> FALSE, changed |-> FALSE]

\* An applier that takes note of a delete and keeps the entry.
DeltaDeleteKept(st, key) == [st EXCEPT !.copied = TRUE, !.changed = TRUE]

DeltaDelete(st, key) ==
    [updated |-> MapDelete(st.updated, key), copied |-> TRUE, changed |-> TRUE]

\* An applier that takes note of a record and does not store it.
DeltaSetDropped(st, id, rec) == [st EXCEPT !.copied = TRUE, !.changed = TRUE]

DeltaSet(st, id, rec) ==
    [updated |-> MapSet(st.updated, id, rec), copied |-> TRUE, changed |-> TRUE]

\* for (const [id, endpoint] of parsed): set the entries that are new or differ
RECURSIVE MergeEndpoints(_, _, _, _)
MergeEndpoints(current, parsed, j, st) ==
    IF j > Len(parsed) THEN st
    ELSE LET id == parsed[j].k
             rec == parsed[j].v
         IN IF ~Has(current, id) \/ ~endpointEquals(Get(current, id), rec)
            THEN MergeEndpoints(current, parsed, j + 1, DeltaSet(st, id, rec))
            ELSE MergeEndpoints(current, parsed, j + 1, st)

RECURSIVE ApplyEndpointEntries(_, _, _, _)
ApplyEndpointEntries(current, entries, i, st) ==
    IF i > Len(entries) THEN st
    ELSE LET x == entries[i] IN
         IF ~x.obj THEN ApplyEndpointEntries(current, entries, i + 1, st)
         ELSE IF x.e = DELETE_EVENT
         THEN IF Has(current, x.key)
              THEN ApplyEndpointEntries(current, entries, i + 1, DeltaDelete(st, x.key))
              ELSE ApplyEndpointEntries(current, entries, i + 1, st)
         ELSE IF x.e = UPDATE_EVENT
         THEN ApplyEndpointEntries(current, entries, i + 1, st)
         ELSE ApplyEndpointEntries(current, entries, i + 1,
                  MergeEndpoints(current, parseEndpoints(EndpointNode(x)), 1, st))

RECURSIVE MergeConnections(_, _, _, _)
MergeConnections(current, parsed, j, st) ==
    IF j > Len(parsed) THEN st
    ELSE LET id == parsed[j].k
             rec == parsed[j].v
         IN IF ~Has(current, id) \/ ~connectionEquals(Get(current, id), rec)
            THEN MergeConnections(current, parsed, j + 1, DeltaSet(st, id, rec))
            ELSE MergeConnections(current, parsed, j + 1, st)

RECURSIVE ApplyConnectionEntries(_, _, _, _)
ApplyConnectionEntries(current, entries, i, st) ==
    IF i > Len(entries) THEN st
    ELSE LET x == entries[i] IN
         IF ~x.obj THEN ApplyConnectionEntries(current, entries, i + 1, st)
         ELSE IF x.e = DELETE_EVENT
         THEN IF Has(current, x.key)
              THEN ApplyConnectionEntries(current, entries, i + 1, DeltaDelete(st, x.key))
              ELSE ApplyConnectionEntries(current, entries, i + 1, st)
         ELSE IF x.e = UPDATE_EVENT
         THEN ApplyConnectionEntries(current, entries, i + 1, st)
         ELSE ApplyConnectionEntries(current, entries, i + 1,
                  MergeConnections(current, parseConnections(ServiceNode(x)), 1, st))

\* The unconditional-replace strategy: a new Map is returned whatever the delta holds.
AlwaysCopyResult(current, st) == [ref |-> NewRef({current.ref}), val |-> st.updated]

\* The in-place strategy: the entries of the given Map itself are edited.
InPlaceResult(current, st) == [ref |-> current.ref, val |-> st.updated]

\* return changed && updated ? updated : current
DeltaResult(current, st) ==
    IF st.changed /\ st.copied
    THEN [ref |-> NewRef({current.ref}), val |-> st.updated]
    ELSE current

\* An updater that leaves the polled delta for later.
deltaDeferred(current, delta) == current

applyEndpointDelta(current, delta) ==
    IF delta.kind # "object" THEN current
    ELSE DeltaResult(current,
             ApplyEndpointEntries(current.val, delta.entries, 1, StartDelta(current.val)))

applyConnectionDelta(current, delta) ==
    IF delta.kind # "object" THEN current
    ELSE DeltaResult(current,
             ApplyConnectionEntries(current.val, delta.entries, 1, StartDelta(current.val)))

(***************************************************************************)
(* Inputs: what the server may answer                                      *)
(***************************************************************************)
EpEntry(key, e, gid, label, rawType) ==
    [key |-> key, obj |-> TRUE, e |-> e, gid |-> gid, label |-> label,
     rawType |-> rawType, specType |-> "vertex"]

SvcEntry(key, e, cid, rev, from, to) ==
    [key |-> key, obj |-> TRUE, e |-> e, cid |-> cid, rev |-> rev, from |-> from,
     to |-> to, state |-> "connected", label |-> <<>>, nested |-> TRUE]

Body(entries) == [kind |-> "object", entries |-> entries]

InitialEndpointPayloads ==
    { <<>>, <<EpEntry("e1", Absent, "e1", "A", "In")>> }

InitialServicePayloads ==
    { <<>>, <<SvcEntry("c1", Absent, "c1", "r1", "e1", "d1")>> }

EndpointPollBodies ==
    { [kind |-> "absent"], [kind |-> "null"], Body(<<>>),
      Body(<<EpEntry("e1", UPDATE_EVENT, Absent, Absent, Absent)>>),
      Body(<<EpEntry("e1", DELETE_EVENT, Absent, Absent, Absent)>>),
      Body(<<EpEntry("e1", Absent, "e1", "A", "In")>>),
      Body(<<EpEntry("e1", Absent, "e1", "B", "In")>>),
      Body(<<EpEntry("e1", DELETE_EVENT, Absent, Absent, Absent),
             EpEntry("x1", Absent, "e1", "A", "In")>>) }

ServicePollBodies ==
    { [kind |-> "absent"], [kind |-> "null"], Body(<<>>),
      Body(<<SvcEntry("c1", DELETE_EVENT, Absent, Absent, Absent, Absent)>>),
      Body(<<SvcEntry("c1", Absent, "c1", "r1", "e1", "d1")>>),
      Body(<<SvcEntry("c1", Absent, "c1", "r2", "e1", "d1")>>) }

\* Entries of full payloads and of deltas for the store driven alone: a plain
\* endpoint, the same id under another key and label, an entry without id and
\* label, one of an unknown type, a non-object value, a key named like a node
\* of the path.
StoreEndpointEntries ==
    { EpEntry("e1", Absent, "e1", "A", "In"),
      EpEntry("x1", Absent, "e1", "B", "In"),
      EpEntry("e2", Absent, Absent, Absent, "Out"),
      EpEntry("e3", Absent, "e3", "C", "Other"),
      [EpEntry("n1", Absent, Absent, Absent, Absent) EXCEPT !.obj = FALSE],
      EpEntry("data", Absent, "e4", "D", "In") }

\* a plain connection, the same id under another key and revision, one without
\* id and rev, one without source, a key named like a node of the path, and a
\* value that holds the connection fields itself
StoreServiceEntries ==
    { SvcEntry("c1", Absent, "c1", "r1", "e1", "d1"),
      SvcEntry("y1", Absent, "c1", "r2", "e1", "d1"),
      SvcEntry("c2", Absent, Absent, Absent, "e1", "d2"),
      SvcEntry("c3", Absent, "c3", "r1", "", "d1"),
      SvcEntry("data", Absent, Absent, "r1", "e2", "d1"),
      [SvcEntry("c4", Absent, "c4", "r1", "e2", "d2") EXCEPT !.nested = FALSE] }

MaxEntries == 2
MaxCalls == 3
MaxRepeats == 2

\* the objects of at most MaxEntries entries: no key occurs twice in an object
Payloads(entries) ==
    UNION { { p \in [1..n -> entries] : \A i, j \in 1..n : i # j => p[i].key # p[j].key }
            : n \in 0..MaxEntries }

StoreEndpointDeltas ==
    { [kind |-> "null"], [kind |-> "scalar"],
      Body(<<EpEntry("e1", UPDATE_EVENT, Absent, Absent, Absent)>>),
      Body(<<EpEntry("e1", DELETE_EVENT, Absent, Absent, Absent)>>),
      Body(<<EpEntry("e9", DELETE_EVENT, Absent, Absent, Absent)>>),
      Body(<<EpEntry("e1", DELETE_EVENT, Absent, Absent, Absent),
             EpEntry("x1", Absent, "e1", "A", "In")>>) }
    \cup { Body(<<x>>) : x \in StoreEndpointEntries }

StoreServiceDeltas ==
    { [kind |-> "null"], [kind |-> "scalar"],
      Body(<<SvcEntry("c1", UPDATE_EVENT, Absent, Absent, Absent, Absent)>>),
      Body(<<SvcEntry("c1", DELETE_EVENT, Absent, Absent, Absent, Absent)>>),
      Body(<<SvcEntry("c9", DELETE_EVENT, Absent, Absent, Absent, Absent)>>),
      Body(<<SvcEntry("c1", DELETE_EVENT, Absent, Absent, Absent, Absent),
             SvcEntry("y1", Absent, "c1", "r1", "e1", "d1")>>) }
    \cup { Body(<<x>>) : x \in StoreServiceEntries }

HttpFailures == {"401", "500"}

\* fetch outcome of the login request
LoginResponses == {"ok", "nocookie", "notoken", "403", "neterr"}

Sources == {"e1"}

\* the choices of the action's conflictStrategy dropdown
Strategies == 0..2
Destinations == {"d1", "d2"}

\* fetch outcome of a connect / disconnect request; "timeout" is the 30 s timer
CommandResponses ==
    { [status |-> "neterr"], [status |-> "401"], [status |-> "badjson"], [status |-> "timeout"],
      [status |-> "ok", headerOk |-> FALSE, hasEntry |-> TRUE, entryOk |-> TRUE, code |-> Absent],
      [status |-> "ok", headerOk |-> FALSE, hasEntry |-> TRUE, entryOk |-> FALSE, code |-> "409"],
      [status |-> "ok", headerOk |-> TRUE, hasEntry |-> TRUE, entryOk |-> FALSE, code |-> "409"],
      [status |-> "ok", headerOk |-> TRUE, hasEntry |-> FALSE, entryOk |-> FALSE, code |-> Absent],
      [status |-> "ok", headerOk |-> TRUE, hasEntry |-> TRUE, entryOk |-> TRUE, code |-> Absent] }

\* Schedule.jittered scales a delay by a random factor in [0.8, 1.2]; in percent
Jitters == 80..120

(***************************************************************************)
(* VideoIPath client (state.ts, second half)                               *)
(***************************************************************************)
Ok(value) == [ok |-> TRUE, value |-> value]
Fail(err) == [ok |-> FALSE, err |-> err]

AuthenticationError(statusCode) == [tag |-> "AuthenticationError", status |-> statusCode]
ApiRequestError(statusCode) == [tag |-> "ApiRequestError", status |-> statusCode]
SessionExpiredError == [tag |-> "SessionExpiredError", status |-> "401"]
NotAuthenticated == [tag |-> "SessionExpiredError", status |-> "nosession"]

\* A client that takes the session for granted.
sessionAssumed(sess) == Ok(sess)

getSession(sess) == IF sess = NoSession THEN Fail(NotAuthenticated) ELSE Ok(sess)

\* login: the session to store, or the AuthenticationError
login(resp, token) ==
    IF resp = "neterr" THEN Fail(AuthenticationError("neterr"))
    ELSE IF resp \notin {"ok", "nocookie", "notoken"} THEN Fail(AuthenticationError(resp))
    ELSE IF resp \in {"nocookie", "notoken"} THEN Fail(AuthenticationError("nocookie"))
    ELSE Ok(token)

\* A login that drops the session it found when it fails.
sessionDropped(sess, result) == IF result.ok THEN result.value ELSE NoSession

\* login: Ref.set(sessionRef, session) is reached only when nothing failed
sessionAfterLogin(sess, result) == IF result.ok THEN result.value ELSE sess

\* get: resp is [status, body]; the request is sent only with a session
get(sess, resp) ==
    IF ~getSession(sess).ok THEN Fail(getSession(sess).err)
    ELSE IF resp.status = "neterr" THEN Fail(ApiRequestError("neterr"))
    ELSE IF resp.status = "401" THEN Fail(SessionExpiredError)
    ELSE IF resp.status # "ok" THEN Fail(ApiRequestError(resp.status))
    ELSE IF resp.body.kind = "absent" THEN Fail(ApiRequestError("badjson"))
    ELSE Ok(resp.body)

\* A client that reports an expired session like any other refusal.
postNoExpiry(sess, resp) ==
    IF ~getSession(sess).ok THEN Fail(getSession(sess).err)
    ELSE IF resp.status = "neterr" THEN Fail(ApiRequestError("neterr"))
    ELSE IF resp.status # "ok" THEN Fail(ApiRequestError(resp.status))
    ELSE IF resp.body.kind = "absent" THEN Fail(ApiRequestError("badjson"))
    ELSE Ok(resp.body)

\* post: resp is [status, body]; the request is sent only with a session
post(sess, resp) ==
    IF ~getSession(sess).ok THEN Fail(getSession(sess).err)
    ELSE IF resp.status = "neterr" THEN Fail(ApiRequestError("neterr"))
    ELSE IF resp.status = "401" THEN Fail(SessionExpiredError)
    ELSE IF resp.status # "ok" THEN Fail(ApiRequestError(resp.status))
    ELSE IF resp.body.kind = "absent" THEN Fail(ApiRequestError("badjson"))
    ELSE Ok(resp.body)

\* createSubscription: resp.body is [kind, id, entries]
createSubscription(sess, resp) ==
    LET r == post(sess, resp) IN
    IF ~r.ok THEN r
    ELSE IF Falsy(r.value.id) THEN Fail(ApiRequestError("noid"))
    ELSE Ok([id |-> r.value.id, data |-> r.value.entries])

pollSubscription(sess, resp) == post(sess, resp)

\* A command whose 30 s timer is reported like a failure the server sent.
connectResultNoTimeout(resp) ==
    IF resp.status = "timeout" THEN Fail([tag |-> "ConnectionError", reason |-> "header", code |-> Absent])
    ELSE Ok("routed")

\* A connect that looks at header.ok alone.
connectResultHeaderOnly(resp) ==
    IF resp.status = "timeout" THEN Fail([tag |-> "ConnectionError", reason |-> "timeout", code |-> Absent])
    ELSE IF resp.status = "neterr" THEN Fail([tag |-> "ConnectionError", reason |-> "request", code |-> Absent])
    ELSE IF resp.status = "401" THEN Fail([tag |-> "SessionExpiredError", reason |-> "401", code |-> Absent])
    ELSE IF resp.status = "badjson" THEN Fail([tag |-> "ConnectionError", reason |-> "parse", code |-> Absent])
    ELSE IF ~resp.headerOk THEN Fail([tag |-> "ConnectionError", reason |-> "header", code |-> Absent])
    ELSE Ok("routed")

\* connect / disconnect: the outcome of a request that was sent
connectResult(resp) ==
    IF resp.status = "timeout" THEN Fail([tag |-> "ConnectionError", reason |-> "timeout", code |-> Absent])
    ELSE IF resp.status = "neterr" THEN Fail([tag |-> "ConnectionError", reason |-> "request", code |-> Absent])
    ELSE IF resp.status = "401" THEN Fail([tag |-> "SessionExpiredError", reason |-> "401", code |-> Absent])
    ELSE IF resp.status = "badjson" THEN Fail([tag |-> "ConnectionError", reason |-> "parse", code |-> Absent])
    ELSE IF ~resp.headerOk THEN Fail([tag |-> "ConnectionError", reason |-> "header", code |-> Absent])
    ELSE IF resp.hasEntry /\ ~resp.entryOk
    THEN Fail([tag |-> "ConnectionError", reason |-> "entry", code |-> resp.code])
    ELSE Ok("routed")

(***************************************************************************)
(* RouterState store (state.ts, first half)                                *)
(***************************************************************************)
\* `null` where a Connection is expected
NoConnection ==
    [id |-> Null, rev |-> Null, from |-> Null, to |-> Null, state |-> Null, label |-> <<>>]

RECURSIVE FirstTo(_, _, _)
FirstTo(vals, destId, i) ==
    IF i > Len(vals) THEN NoConnection
    ELSE IF vals[i].to = destId THEN vals[i]
    ELSE FirstTo(vals, destId, i + 1)

\* The first stored connection, whatever its destination.
AnyConnection(connections, destId) ==
    IF Len(connections) = 0 THEN NoConnection ELSE connections[1].v

getConnectionForDestination(connections, destId) == FirstTo(Values(connections), destId, 1)

\* variables.ts: lookup.set(conn.to, conn) for each stored connection in
\* insertion order, so a later connection replaces an earlier one to the same
\* destination.
buildDestConnectionLookup(connections) ==
    [d \in {connections[i].v.to : i \in 1..Len(connections)} |->
        LET last == CHOOSE i \in 1..Len(connections) :
                        /\ connections[i].v.to = d
                        /\ \A j \in 1..Len(connections) : connections[j].v.to = d => j <= i
        IN  connections[last].v]

\* destConnections.get(ep.id)
destConnection(connections, destId) ==
    IF destId \in DOMAIN buildDestConnectionLookup(connections)
    THEN buildDestConnectionLookup(connections)[destId]
    ELSE NoConnection

(***************************************************************************)
(* Retry schedule: Schedule.exponential('1 second', 2), modifyDelay(min    *)
(* 30 s), jittered.  n is the recurrence index, starting at 0.             *)
(***************************************************************************)
BaseSeconds == 1
Factor == 2
CapSeconds == 30

exponential(n) == BaseSeconds * Pow(Factor, n)

\* A schedule whose cap is applied as a floor.
reconnectFloor(n) == IF exponential(n) >= CapSeconds THEN exponential(n) ELSE CapSeconds

\* A schedule that starts over with every episode.
scheduleRestarted(n) == exponential(0)

reconnectSchedule(n) == Min(exponential(n), CapSeconds)

jittered(seconds, pct) == seconds * 10 * pct

(***************************************************************************)
(* Observations                                                            *)
(***************************************************************************)
Inc(n) == Min(n + 1, 2)

\* epData / svcData: the initial payloads of the episode (epSub.data,
\* svcSub.data), kept until the episode is connected
NoObs ==
    [loggedIn |-> FALSE, connected |-> 0, disconnected |-> 0, epInit |-> 0, connInit |-> 0,
     delAttempted |-> {}, cleanupFailed |-> {}, logout |-> FALSE, cancelPc |-> "none", cancelSession |-> FALSE,
     epData |-> <<>>, svcData |-> <<>>]

\* epDiff / connDiff: the poll of this tick left another map value in the store
NoTick ==
    [phase |-> "none", epDiff |-> FALSE, connDiff |-> FALSE, epCb |-> 0, connCb |-> 0,
     epBody |-> "none", svcBody |-> "none", svcEntries |-> <<>>]

OpenTick == [NoTick EXCEPT !.phase = "open"]

NoRequest == [op |-> "none"]

NoAnswer == [status |-> "none"]

\* answer: what ended the request of the command (NoAnswer: nothing was sent
\* or nothing has answered yet); strategy: the conflictStrategy the action
\* callback passed to the command
NoCmd ==
    [kind |-> "none", from |-> "", to |-> "", stage |-> "idle", outcome |-> Ok("none"),
     req |-> NoRequest, answer |-> NoAnswer, strategy |-> -1]

\* the last getSnapshot call: the snapshot it returned and the pair the store
\* held when it ran; earlier is an endpoints map the store held before
NoSnapshot ==
    [stage |-> "idle", endpoints |-> <<>>, connections |-> <<>>,
     heldEndpoints |-> <<>>, heldConnections |-> <<>>, earlier |-> <<>>]

\* a write to endpointsRef, as a caller of getSnapshot remembers it
Observe(sn, before, after) ==
    IF sn.stage # "idle" /\ after.val # before.val
    THEN [sn EXCEPT !.earlier = before.val]
    ELSE sn

\* the store on its own: the operation last run on it, the Map it held
\* (before) and the Map it returned or stored (after)
EmptyMap == [ref |-> 0, val |-> <<>>]

\* alive: ManagedRuntimes built by startConnection and not disposed; leaked:
\* those of them this.runtime no longer refers to; reinits, restops: init
\* calls after the first one, destroy calls after a destroy
\* a lifecycle call of the host that has not returned: what it awaits
NoLifeCall == [op |-> "none", stage |-> "idle", target |-> 0]

\* inited .. calls: the instance as overlapping lifecycle calls see it.  ref is
\* this.runtime (0: null, r: the r-th runtime made), cfg this.config, made the
\* number of runtimes made, stopping the runtimes whose dispose() was called,
\* disposed those whose dispose() has resolved.
NoHost ==
    [alive |-> 0, leaked |-> 0, reinits |-> 0, restops |-> 0,
     inited |-> FALSE, ref |-> 0, cfg |-> FALSE, made |-> 0, stopping |-> {},
     disposed |-> {}, calls |-> [i \in 1..MaxCalls |-> NoLifeCall]]

\* no call made yet on the client driven alone
NoCall ==
    [op |-> "none", n |-> 0, status |-> "none", body |-> "none", arg |-> "none",
     before |-> NoSession, sent |-> FALSE, ok |-> TRUE, err |-> NoError,
     decoded |-> FALSE]

NoCalc ==
    [op |-> "none", input |-> [kind |-> "null"], before |-> EmptyMap, after |-> EmptyMap,
     again |-> EmptyMap, dest |-> "", found |-> NoConnection]

RegionPcs == {"createEp", "setEp", "createSvc", "setSvc", "connect", "pollEp", "pollSvc", "sleep"}
CleanupPcs == {"delEp", "delSvc", "logout"}
EndedPcs == {"backoff", "done"}

(***************************************************************************)
(* Init: the module instance after construction                            *)
(***************************************************************************)
Init ==
    /\ runtime = "none"
    /\ lifeOp = "new"
    /\ status = [s |-> "None", reason |-> NoError]
    /\ config = FALSE
    /\ session = NoSession
    /\ endpointsRef = [ref |-> 0, val |-> <<>>]
    /\ connectionsRef = [ref |-> 0, val |-> <<>>]
    /\ pc = "idle"
    /\ endpointSubId = Null
    /\ serviceSubId = Null
    /\ currentEndpoints = NoRef
    /\ currentConnections = NoRef
    /\ endpointsChanged = FALSE
    /\ connectionsChanged = FALSE
    /\ error = NoError
    /\ interrupted = FALSE
    /\ attempt = 0
    /\ lastDelay = 0
    /\ cmd = NoCmd
    /\ obs = NoObs
    /\ tick = NoTick
    /\ sched = [n |-> 0, base |-> 0, ms |-> 0]
    /\ pendingData = <<>>
    /\ snap = NoSnapshot
    /\ calc = NoCalc
    /\ call = NoCall
    /\ host = NoHost

lifeVars == <<runtime, lifeOp, config>>
storeVars == <<endpointsRef, connectionsRef>>
localVars == <<endpointSubId, serviceSubId, currentEndpoints, currentConnections,
               endpointsChanged, connectionsChanged, pendingData>>
retryVars == <<attempt, lastDelay>>

(***************************************************************************)
(* main.ts: startConnection / stopConnection / init / configUpdated /      *)
(* destroy                                                                 *)
(***************************************************************************)
\* startConnection: a new runtime owns a new client, a new store and a new fiber
startConnectionFrom(cfg, h) ==
    IF ~cfg
    THEN /\ status' = [s |-> "BadConfig", reason |-> NoError]
         /\ UNCHANGED <<runtime, session, endpointsRef, connectionsRef, pc, endpointSubId,
                        serviceSubId, currentEndpoints, currentConnections, endpointsChanged,
                        connectionsChanged, error, interrupted, attempt, lastDelay, obs,
                        tick, pendingData>>
         /\ host' = h
    ELSE /\ status' = [s |-> "Connecting", reason |-> NoError]
         /\ runtime' = "live"
         /\ host' = [h EXCEPT !.alive = @ + 1,
                              !.leaked = IF runtime = "none" THEN @ ELSE @ + 1]
         /\ session' = NoSession
         /\ endpointsRef' = [ref |-> 0, val |-> <<>>]
         /\ connectionsRef' = [ref |-> 0, val |-> <<>>]
         /\ pc' = "login"
         /\ endpointSubId' = Null
         /\ serviceSubId' = Null
         /\ currentEndpoints' = NoRef
         /\ currentConnections' = NoRef
         /\ endpointsChanged' = FALSE
         /\ connectionsChanged' = FALSE
         /\ error' = NoError
         /\ interrupted' = FALSE
         /\ attempt' = 0
         /\ lastDelay' = 0
         /\ obs' = NoObs
         /\ tick' = NoTick
         /\ pendingData' = <<>>

startConnection(cfg) == startConnectionFrom(cfg, host)

\* Closing the runtime's scope interrupts the forked fiber where it stands.
InterruptFiber ==
    /\ obs' = [obs EXCEPT !.cancelPc = pc, !.cancelSession = (session # NoSession)]
    /\ IF pc \in RegionPcs
       THEN /\ pc' = "delEp"
            /\ interrupted' = TRUE
            /\ tick' = IF tick.phase = "open" THEN [tick EXCEPT !.phase = "ended"] ELSE tick
       ELSE IF pc \in CleanupPcs
       THEN /\ interrupted' = TRUE
            /\ UNCHANGED <<pc, tick>>
       ELSE /\ pc' = "done"
            /\ interrupted' = TRUE
            /\ UNCHANGED tick

\* stopConnection up to `await this.runtime.dispose()`
stopBegin(op) ==
    /\ runtime' = "disposing"
    /\ lifeOp' = op
    /\ InterruptFiber
    /\ UNCHANGED <<status, session, storeVars, localVars, error, retryVars,
                   cmd, sched, snap, calc, call, host>>

InitModule(cfg) ==
    /\ lifeOp = "new"
    /\ lifeOp' = "idle"
    /\ config' = cfg
    /\ startConnection(cfg)
    /\ UNCHANGED <<cmd, sched, snap, calc, call>>

\* A stopConnection that finds nothing to stop.
nothingToStop(rt) == FALSE

\* stopConnection: `if (this.runtime)`
stopNeeded(rt) == rt # "none"

ConfigUpdated(cfg) ==
    /\ lifeOp = "idle"
    /\ config' = cfg
    /\ IF ~stopNeeded(runtime)
       THEN /\ lifeOp' = "idle"
            /\ startConnection(cfg)
            /\ UNCHANGED <<cmd, sched, snap, calc, call>>
       ELSE stopBegin("configUpdated")

Destroy ==
    /\ lifeOp = "idle"
    /\ UNCHANGED config
    /\ IF ~stopNeeded(runtime)
       THEN /\ lifeOp' = "destroyed"
            /\ UNCHANGED <<runtime, status, session, storeVars, pc, localVars, error,
                           interrupted, retryVars, cmd, obs, tick, sched, snap, calc, call, host>>
       ELSE stopBegin("destroy")

\* dispose() resolves once the fiber has ended; then this.runtime = null
\* (the disposed runtime, its client, its store and its fiber are unreachable)
StopEnd ==
    /\ runtime = "disposing"
    /\ pc = "done"
    /\ runtime' = "none"
    /\ lifeOp' = IF lifeOp = "destroy" THEN "destroyed" ELSE "restart"
    /\ session' = NoSession
    /\ endpointsRef' = [ref |-> 0, val |-> <<>>]
    /\ connectionsRef' = [ref |-> 0, val |-> <<>>]
    /\ pc' = "idle"
    /\ endpointSubId' = Null
    /\ serviceSubId' = Null
    /\ currentEndpoints' = NoRef
    /\ currentConnections' = NoRef
    /\ endpointsChanged' = FALSE
    /\ connectionsChanged' = FALSE
    /\ pendingData' = <<>>
    /\ error' = NoError
    /\ interrupted' = FALSE
    /\ attempt' = 0
    /\ lastDelay' = 0
    /\ obs' = NoObs
    /\ tick' = NoTick
    /\ host' = [host EXCEPT !.alive = @ - 1]
    /\ UNCHANGED <<config, status, cmd, sched, snap, calc, call>>

\* configUpdated after `await this.stopConnection()`
Restart ==
    /\ lifeOp = "restart"
    /\ lifeOp' = "idle"
    /\ startConnection(config)
    /\ UNCHANGED <<config, cmd, sched, snap, calc, call>>

(***************************************************************************)
(* subscription.ts: createSubscriptionLoop                                 *)
(***************************************************************************)
\* The failure passed on as it is, without the wrapping.
Unwrapped(phase, cause) == cause

\* Effect.mapError of runSession: every failure becomes a SubscriptionError
SubscriptionError(phase, cause) ==
    [tag |-> "SubscriptionError", phase |-> phase, cause |-> cause]

\* The server may fail a request only while failed episodes are left to explore:
\* from then on it accepts every request of this supervisor.
MayFail == attempt < MaxFailures

\* A schedule that gives up after the first retry.
recursOnce(n) == n < 1

\* Effect.retry(reconnectSchedule): whether the schedule recurs once more
recurs(n) == TRUE

\* A failure handler that reports nothing to the host.
DisconnectedUnreported(err, o) ==
    /\ status' = status
    /\ error' = NoError
    /\ obs' = [o EXCEPT !.disconnected = Inc(@)]
    /\ pc' = "backoff"
    /\ lastDelay' = reconnectSchedule(attempt)
    /\ attempt' = attempt + 1

\* catchAll of runSession, then the retry schedule's next step
Disconnected(err, o) ==
    /\ status' = [s |-> "ConnectionFailure", reason |-> err]
    /\ error' = NoError
    /\ obs' = [o EXCEPT !.disconnected = Inc(@)]
    /\ IF recurs(attempt)
       THEN /\ pc' = "backoff"
            /\ lastDelay' = reconnectSchedule(attempt)
            /\ attempt' = attempt + 1
       ELSE /\ pc' = "done"
            /\ UNCHANGED <<lastDelay, attempt>>

\* the failure ends the body of Effect.ensuring: the finalizer starts
FailInRegion(err) ==
    /\ error' = err
    /\ pc' = "delEp"
    /\ tick' = IF tick.phase = "open" THEN [tick EXCEPT !.phase = "ended"] ELSE tick

\* the session the server issues to the login of episode n: never the one before
Token(n) == IF n % 2 = 0 THEN "s1" ELSE "s2"

\* client.login() answered
LoginRecv(resp) ==
    /\ pc = "login"
    /\ resp = "ok" \/ MayFail
    /\ LET r == login(resp, Token(attempt)) IN
       /\ session' = sessionAfterLogin(session, r)
       /\ IF r.ok
          THEN /\ pc' = "loggedIn"
               /\ obs' = [obs EXCEPT !.loggedIn = TRUE]
               /\ UNCHANGED <<status, error, retryVars>>
          ELSE Disconnected(SubscriptionError("login", r.err), obs)
    /\ UNCHANGED <<lifeVars, storeVars, localVars, interrupted, cmd, tick, sched, snap, calc, call, host>>

\* the body of Effect.ensuring starts: client.createSubscription(endpoints) is sent
EnterEnsuring ==
    /\ pc = "loggedIn"
    /\ pc' = "createEp"
    /\ UNCHANGED <<lifeVars, status, session, storeVars, localVars, error,
                   interrupted, retryVars, cmd, obs, tick, sched, snap, calc, call, host>>

CreateResponses(id, payloads) ==
    {[status |-> "ok", body |-> [kind |-> "object", id |-> id, entries |-> e]] : e \in payloads}
    \cup {[status |-> "ok", body |-> [kind |-> "object", id |-> Absent, entries |-> <<>>]]}
    \cup {[status |-> f, body |-> [kind |-> "absent"]] : f \in HttpFailures}

\* the answers to the creation of the service subscription: those above, or
\* no answer at all
ServiceCreateResponses ==
    CreateResponses("subS", InitialServicePayloads)
    \cup {[status |-> "neterr", body |-> [kind |-> "absent"]]}

CreateEpRecv(resp) ==
    /\ pc = "createEp"
    /\ LET r == createSubscription(session, resp) IN
       /\ r.ok \/ MayFail
       /\ IF r.ok
          THEN /\ endpointSubId' = r.value.id
               /\ pendingData' = r.value.data
               /\ obs' = [obs EXCEPT !.epData = r.value.data]
               /\ pc' = "setEp"
               /\ UNCHANGED <<error, tick>>
          ELSE /\ FailInRegion(SubscriptionError("createEndpoint", r.err))
               /\ UNCHANGED <<endpointSubId, pendingData, obs>>
    /\ UNCHANGED <<lifeVars, status, session, storeVars, serviceSubId,
                   currentEndpoints, currentConnections, endpointsChanged,
                   connectionsChanged, interrupted, retryVars, cmd, sched, snap, calc, call, host>>

\* state.setEndpoints(parseEndpoints(epSub.data)); createSubscription(services) is sent
SetEndpoints ==
    /\ pc = "setEp"
    /\ endpointsRef' = Stored([ref |-> NewRef({endpointsRef.ref}),
                               val |-> parseEndpoints(pendingData)])
    /\ pendingData' = <<>>
    /\ pc' = "createSvc"
    /\ UNCHANGED <<lifeVars, status, session, connectionsRef, endpointSubId,
                   serviceSubId, currentEndpoints, currentConnections, endpointsChanged,
                   connectionsChanged, error, interrupted, retryVars, cmd, obs,
                   tick, sched, calc, call, host>>
    /\ snap' = Observe(snap, endpointsRef, endpointsRef')

CreateSvcRecv(resp) ==
    /\ pc = "createSvc"
    /\ LET r == createSubscription(session, resp) IN
       /\ r.ok \/ MayFail
       /\ IF r.ok
          THEN /\ serviceSubId' = r.value.id
               /\ pendingData' = r.value.data
               /\ obs' = [obs EXCEPT !.svcData = r.value.data]
               /\ pc' = "setSvc"
               /\ UNCHANGED <<error, tick>>
          ELSE /\ FailInRegion(SubscriptionError("createService", r.err))
               /\ UNCHANGED <<serviceSubId, pendingData, obs>>
    /\ UNCHANGED <<lifeVars, status, session, storeVars, endpointSubId,
                   currentEndpoints, currentConnections, endpointsChanged,
                   connectionsChanged, interrupted, retryVars, cmd, sched, snap, calc, call, host>>

SetConnections ==
    /\ pc = "setSvc"
    /\ connectionsRef' = Stored([ref |-> NewRef({connectionsRef.ref}),
                                 val |-> parseConnections(pendingData)])
    /\ pendingData' = <<>>
    /\ pc' = "connect"
    /\ UNCHANGED <<lifeVars, status, session, endpointsRef, endpointSubId,
                   serviceSubId, currentEndpoints, currentConnections, endpointsChanged,
                   connectionsChanged, error, interrupted, retryVars, cmd, obs,
                   tick, sched, snap, calc, call, host>>

\* A loop that reports the connection and leaves the full state unannounced.
connectedOnly(o) == [o EXCEPT !.connected = Inc(@), !.epData = <<>>, !.svcData = <<>>]

\* onConnected(); onEndpointsChanged(); onConnectionsChanged()
initialCallbacks(o) ==
    [o EXCEPT !.connected = Inc(@), !.epInit = Inc(@), !.connInit = Inc(@),
              !.epData = <<>>, !.svcData = <<>>]

\* the tracked references are read, onConnected / onEndpointsChanged /
\* onConnectionsChanged are called and the first pollOnce sends its endpoint poll
Connected ==
    /\ pc = "connect"
    /\ currentEndpoints' = endpointsRef.ref
    /\ currentConnections' = connectionsRef.ref
    /\ status' = [s |-> "Ok", reason |-> NoError]
    /\ obs' = initialCallbacks(obs)
    /\ endpointsChanged' = FALSE
    /\ connectionsChanged' = FALSE
    /\ tick' = OpenTick
    /\ pc' = "pollEp"
    /\ UNCHANGED <<lifeVars, session, storeVars, endpointSubId, serviceSubId,
                   pendingData, error, interrupted, retryVars, cmd, sched, snap, calc, call, host>>

PollResponses(bodies) ==
    {[status |-> "ok", body |-> b] : b \in bodies}
    \cup {[status |-> f, body |-> [kind |-> "absent"]] : f \in HttpFailures}

\* what a poll answered: "absent" (no body), "null", "empty" ({}) or a delta
BodyKind(resp) ==
    IF resp.status # "ok" THEN resp.status
    ELSE IF resp.body.kind = "object" /\ resp.body.entries = <<>> THEN "empty"
    ELSE IF resp.body.kind = "object" THEN "delta"
    ELSE resp.body.kind

\* what the server answered to a poll that failed ("unsent" without a session)
Answered(resp) == IF getSession(session).ok THEN BodyKind(resp) ELSE "unsent"

\* a poll failed: the tick ends, the finalizer starts
FailInPoll(err, answered) ==
    /\ error' = err
    /\ pc' = "delEp"
    /\ tick' = [answered EXCEPT !.phase = "ended"]

\* pollOnce, first half: the endpoint poll answered; the service poll is sent
PollEpRecv(resp) ==
    /\ pc = "pollEp"
    /\ LET r == pollSubscription(session, resp) IN
       /\ r.ok \/ MayFail
       /\ IF ~r.ok
          THEN /\ FailInPoll(SubscriptionError("pollEndpoint", r.err),
                               [tick EXCEPT !.epBody = Answered(resp)])
               /\ UNCHANGED <<endpointsRef, endpointsChanged, currentEndpoints>>
          ELSE LET after == IF r.value.kind # "null"
                            THEN applyEndpointDelta(endpointsRef, r.value)
                            ELSE endpointsRef
                   changed == r.value.kind # "null" /\ after.ref # currentEndpoints
               IN /\ error' = error
                  /\ endpointsRef' = Stored(after)
                  /\ endpointsChanged' = changed
                  /\ currentEndpoints' = IF changed THEN Stored(after).ref ELSE currentEndpoints
                  /\ tick' = [tick EXCEPT !.epBody = BodyKind(resp),
                                          !.epDiff = (after.val # endpointsRef.val)]
                  /\ pc' = "pollSvc"
    /\ UNCHANGED <<lifeVars, status, session, connectionsRef, endpointSubId,
                   serviceSubId, currentConnections, connectionsChanged, pendingData,
                   interrupted, retryVars, cmd, obs, sched, calc, call, host>>
    /\ snap' = Observe(snap, endpointsRef, endpointsRef')

\* pollOnce, second half: the service poll answered, then the callbacks of the tick
PollSvcRecv(resp) ==
    /\ pc = "pollSvc"
    /\ LET r == pollSubscription(session, resp) IN
       /\ r.ok \/ MayFail
       /\ IF ~r.ok
          THEN /\ FailInPoll(SubscriptionError("pollService", r.err),
                               [tick EXCEPT !.svcBody = Answered(resp)])
               /\ UNCHANGED <<connectionsRef, connectionsChanged, currentConnections>>
          ELSE LET after == IF r.value.kind # "null"
                            THEN applyConnectionDelta(connectionsRef, r.value)
                            ELSE connectionsRef
                   changed == r.value.kind # "null" /\ after.ref # currentConnections
               IN /\ error' = error
                  /\ connectionsRef' = Stored(after)
                  /\ connectionsChanged' = changed
                  /\ currentConnections' = IF changed THEN Stored(after).ref ELSE currentConnections
                  /\ tick' = [tick EXCEPT !.svcBody = BodyKind(resp),
                                          !.svcEntries = IF r.value.kind = "object"
                                                         THEN r.value.entries ELSE <<>>,
                                          !.connDiff = (after.val # connectionsRef.val),
                                          !.phase = "ended",
                                          !.epCb = IF endpointsChanged THEN Inc(@) ELSE @,
                                          !.connCb = IF changed THEN Inc(@) ELSE @]
                  /\ pc' = "sleep"
    /\ UNCHANGED <<lifeVars, status, session, endpointsRef, endpointSubId,
                   serviceSubId, currentEndpoints, endpointsChanged, pendingData,
                   interrupted, retryVars, cmd, obs, sched, snap, calc, call, host>>

\* Schedule.spaced elapsed: the next pollOnce sends its endpoint poll
NextTick ==
    /\ pc = "sleep"
    /\ pc' = "pollEp"
    /\ endpointsChanged' = FALSE
    /\ connectionsChanged' = FALSE
    /\ tick' = OpenTick
    /\ UNCHANGED <<lifeVars, status, session, storeVars, endpointSubId,
                   serviceSubId, currentEndpoints, currentConnections, pendingData, error,
                   interrupted, retryVars, cmd, obs, sched, snap, calc, call, host>>

\* what the server may answer to the DELETE requests of the cleanup
CleanupResponses == {"ok", "500", "neterr"}

\* A handler that lets the failure of the effect through.
propagated(result) == result

\* Effect.ignore: the outcome of the effect is discarded, failure included
ignore(result) == Ok(Null)

\* fetch rejects only when no answer arrives; any status resolves
fetched(resp) == IF resp = "neterr" THEN Fail(ApiRequestError("neterr")) ELSE Ok(resp)

\* deleteSubscription(id): the DELETE is sent only with a session, and what
\* comes of it is ignored
deleteSubscription(sess, resp) ==
    IF ~getSession(sess).ok THEN Fail(getSession(sess).err)
    ELSE ignore(fetched(resp))

\* A cleanup that takes every subscription for created.
assumedCreated(subId) == TRUE

\* cleanup: `if (endpointSubId)`, `if (serviceSubId)`
created(subId) == subId # Null

\* the cleanup deletes a subscription only when its id was stored, and ignores
\* the failure of the deletion
deleteIfCreated(subId, sess, resp) ==
    IF ~created(subId) THEN Ok(Null) ELSE ignore(deleteSubscription(sess, resp))

\* the error the episode carries once a step of the finalizer has run
Finalized(err, result) == IF result.ok THEN err ELSE result.err

\* what is observed of a deletion: whether the DELETE was sent, and whether the
\* server failed it
DeleteAttempted(which, subId, resp) ==
    IF created(subId) /\ getSession(session).ok
    THEN [obs EXCEPT !.delAttempted = @ \cup {which},
                     !.cleanupFailed = IF resp # "ok" THEN @ \cup {which} ELSE @]
    ELSE obs

CleanupDeleteEp(resp) ==
    /\ pc = "delEp"
    /\ obs' = DeleteAttempted("ep", endpointSubId, resp)
    /\ error' = Finalized(error, deleteIfCreated(endpointSubId, session, resp))
    /\ pc' = "delSvc"
    /\ tick' = NoTick
    /\ UNCHANGED <<lifeVars, status, session, storeVars, localVars,
                   interrupted, retryVars, cmd, sched, snap, calc, call, host>>

CleanupDeleteSvc(resp) ==
    /\ pc = "delSvc"
    /\ obs' = DeleteAttempted("svc", serviceSubId, resp)
    /\ error' = Finalized(error, deleteIfCreated(serviceSubId, session, resp))
    /\ pc' = "logout"
    /\ UNCHANGED <<lifeVars, status, session, storeVars, localVars,
                   interrupted, retryVars, cmd, tick, sched, snap, calc, call, host>>

\* A logout that clears the session only when the server accepted the request.
logoutChecked(sess, resp) ==
    IF sess = NoSession
    THEN [result |-> Ok(Null), session |-> sess, sent |-> FALSE]
    ELSE [result |-> Ok(Null), session |-> IF resp = "ok" THEN NoSession ELSE sess,
          sent |-> TRUE]

\* A logout that leaves the session in the client.
logoutKept(sess, resp) ==
    [result |-> Ok(Null), session |-> sess, sent |-> sess # NoSession]

\* client.logout(): without a session nothing is sent; with one the DELETE is
\* sent, what comes of it is ignored, and the session is cleared
logout(sess, resp) ==
    IF sess = NoSession
    THEN [result |-> Ok(Null), session |-> sess, sent |-> FALSE]
    ELSE LET r == ignore(fetched(resp))
         IN  [result |-> r, session |-> IF r.ok THEN NoSession ELSE sess, sent |-> TRUE]

\* what is observed of the logout: that it was called, and whether the server
\* failed its request
LogoutObserved(lo, resp) ==
    [obs EXCEPT !.logout = TRUE,
                !.cleanupFailed = IF lo.sent /\ resp # "ok" THEN @ \cup {"logout"} ELSE @]

\* the finalizer ends; an interrupted fiber ends here, a failed episode reaches
\* catchAll and the retry schedule
CleanupLogout(resp) ==
    /\ pc = "logout"
    /\ LET lo == logout(session, resp)
       IN  /\ session' = lo.session
           /\ IF interrupted
              THEN /\ pc' = "done"
                   /\ obs' = LogoutObserved(lo, resp)
                   /\ error' = Finalized(error, lo.result)
                   /\ UNCHANGED <<status, retryVars>>
              ELSE Disconnected(Finalized(error, lo.result), LogoutObserved(lo, resp))
    /\ UNCHANGED <<lifeVars, storeVars, localVars, interrupted, cmd, tick, sched, snap, calc, call, host>>

\* A loop that makes a store for each episode.
freshState(held) == [ref |-> 0, val |-> <<>>]

\* runSession closes over the `state` the loop obtained once, before the
\* first episode: every episode writes to the Refs the one before it wrote to
stateOfEpisode(held) == held

\* the backoff delay elapsed: runSession runs again, client.login() is sent
BackoffElapsed ==
    /\ pc = "backoff"
    /\ endpointsRef' = stateOfEpisode(endpointsRef)
    /\ connectionsRef' = stateOfEpisode(connectionsRef)
    /\ pc' = "login"
    /\ endpointSubId' = Null
    /\ serviceSubId' = Null
    /\ currentEndpoints' = NoRef
    /\ currentConnections' = NoRef
    /\ endpointsChanged' = FALSE
    /\ connectionsChanged' = FALSE
    /\ pendingData' = <<>>
    /\ error' = NoError
    /\ obs' = NoObs
    /\ tick' = NoTick
    /\ UNCHANGED <<lifeVars, status, session, interrupted, retryVars,
                   cmd, sched, snap, calc, call, host>>

(***************************************************************************)
(* main.ts: executeRoute / executeDisconnect                               *)
(***************************************************************************)
ConnectionError(reason) == [tag |-> "ConnectionError", reason |-> reason, code |-> Absent]

\* the body main.ts hands to client.connect; state.ts:335-336 fixes the strategies
connectRequest(from, to) ==
    [op |-> "connect", from |-> from, to |-> to, bookingStrategy |-> 2, conflictStrategy |-> 0]

\* client.disconnect(id, rev) is called by main.ts:242
disconnectRequest(id, rev) == [op |-> "disconnect", id |-> id, rev |-> rev]

\* new ConnectionError({ message, from, to, code }): the failure as the caller
\* of a command receives it; the other failures carry no endpoint ids
Carrying(outcome, from, to) ==
    IF outcome.ok \/ outcome.err.tag # "ConnectionError" THEN outcome
    ELSE Fail([tag |-> "ConnectionError", reason |-> outcome.err.reason,
               code |-> outcome.err.code, from |-> from, to |-> to])

\* a command that ended without a request
Ended(kind, from, to, outcome) ==
    [kind |-> kind, from |-> from, to |-> to, stage |-> "idle",
     outcome |-> Carrying(outcome, from, to),
     req |-> NoRequest, answer |-> NoAnswer, strategy |-> -1]

\* a command whose request is on the wire
Sent(kind, from, to, req) ==
    [kind |-> kind, from |-> from, to |-> to, stage |-> "inflight", outcome |-> Ok("none"),
     req |-> req, answer |-> NoAnswer, strategy |-> -1]

\* A command that drops the connections from the store once its teardown
\* request has succeeded.
optimisticStore(connections, c) ==
    IF c.kind = "disconnect" /\ c.stage = "idle" /\ c.outcome.ok /\ c.answer # NoAnswer
    THEN [ref |-> connections.ref, val |-> <<>>]
    ELSE connections

\* the connections map a command step leaves in the store: executeRoute and
\* executeDisconnect only read the store, they call no setter of it
storeAfterCommand(connections, c) == connections

\* whether a command runs on the runtime at all
hasRuntime(rt) == rt # "none"

executeRoute(source, destination) ==
    IF ~hasRuntime(runtime)
    THEN Ended("route", source, destination, Fail(ConnectionError("notConnected")))
    ELSE IF ~getSession(session).ok
    THEN Ended("route", source, destination, Fail(getSession(session).err))
    ELSE Sent("route", source, destination, connectRequest(source, destination))

executeDisconnect(destination) ==
    IF ~hasRuntime(runtime)
    THEN Ended("disconnect", "", destination, Fail(ConnectionError("notConnected")))
    ELSE LET connection == getConnectionForDestination(connectionsRef.val, destination) IN
         IF connection = NoConnection
         THEN Ended("disconnect", "", destination, Fail(ConnectionError("noConnection")))
         ELSE IF ~getSession(session).ok
         THEN Ended("disconnect", "", destination, Fail(getSession(session).err))
         ELSE Sent("disconnect", "", destination,
                   disconnectRequest(connection.id, connection.rev))

\* actions.ts: self.executeRoute(source, destination, conflictStrategy); the
\* method of main.ts declares two parameters
ExecuteRoute(source, destination, conflictStrategy) ==
    /\ cmd.stage = "idle"
    /\ cmd' = [executeRoute(source, destination) EXCEPT !.strategy = conflictStrategy]
    /\ endpointsRef' = endpointsRef
    /\ connectionsRef' = storeAfterCommand(connectionsRef, cmd')
    /\ UNCHANGED <<lifeVars, status, session, pc, localVars, error,
                   interrupted, retryVars, obs, tick, sched, snap, calc, call, host>>

\* actions.ts: self.executeDisconnect(destination, conflictStrategy); the
\* method of main.ts declares one parameter
ExecuteDisconnect(destination, conflictStrategy) ==
    /\ cmd.stage = "idle"
    /\ cmd' = [executeDisconnect(destination) EXCEPT !.strategy = conflictStrategy]
    /\ endpointsRef' = endpointsRef
    /\ connectionsRef' = storeAfterCommand(connectionsRef, cmd')
    /\ UNCHANGED <<lifeVars, status, session, pc, localVars, error,
                   interrupted, retryVars, obs, tick, sched, snap, calc, call, host>>

\* A command that sends its request a second time when the first one failed.
commandRetried(c, resp) ==
    IF ~connectResult(resp).ok /\ c.answer = NoAnswer
    THEN [c EXCEPT !.answer = resp]
    ELSE [c EXCEPT !.stage = "idle",
                   !.outcome = Carrying(connectResult(resp), c.from, c.to),
                   !.req = NoRequest, !.answer = resp]

\* runPromiseExit resolves with the outcome of the one request of the command
commandEnded(c, resp) ==
    [c EXCEPT !.stage = "idle",
              !.outcome = Carrying(connectResult(resp), c.from, c.to),
              !.req = NoRequest, !.answer = resp]

\* A client that forgets its session when a command is answered 401.
sessionForgotten(sess, resp) == IF resp.status = "401" THEN NoSession ELSE sess

\* connect / disconnect: a 401 fails the command with SessionExpiredError;
\* sessionRef is written by login and logout only
sessionAfterCommand(sess, resp) == sess

\* the request of the command answered, or its 30 s timeout fired
CommandRecv(resp) ==
    /\ cmd.stage = "inflight"
    /\ cmd' = commandEnded(cmd, resp)
    /\ session' = sessionAfterCommand(session, resp)
    /\ endpointsRef' = endpointsRef
    /\ connectionsRef' = storeAfterCommand(connectionsRef, cmd')
    /\ UNCHANGED <<lifeVars, status, pc, localVars, error,
                   interrupted, retryVars, obs, tick, sched, snap, calc, call, host>>

(***************************************************************************)
(* The specification of the module                                         *)
(***************************************************************************)
Lifecycle ==
    \/ \E cfg \in BOOLEAN : InitModule(cfg)
    \/ \E cfg \in BOOLEAN : ConfigUpdated(cfg)
    \/ Destroy
    \/ StopEnd
    \/ Restart

Supervisor ==
    \/ \E resp \in LoginResponses : LoginRecv(resp)
    \/ EnterEnsuring
    \/ \E resp \in CreateResponses("subE", InitialEndpointPayloads) : CreateEpRecv(resp)
    \/ SetEndpoints
    \/ \E resp \in ServiceCreateResponses : CreateSvcRecv(resp)
    \/ SetConnections
    \/ Connected
    \/ \E resp \in PollResponses(EndpointPollBodies) : PollEpRecv(resp)
    \/ \E resp \in PollResponses(ServicePollBodies) : PollSvcRecv(resp)
    \/ NextTick
    \/ \E resp \in CleanupResponses : CleanupDeleteEp(resp)
    \/ \E resp \in CleanupResponses : CleanupDeleteSvc(resp)
    \/ \E resp \in CleanupResponses : CleanupLogout(resp)
    \/ BackoffElapsed

Commands ==
    \/ \E s \in Sources, k \in Strategies : ExecuteRoute(s, "d1", k)
    \/ \E d \in Destinations, k \in Strategies : ExecuteDisconnect(d, k)
    \/ \E resp \in CommandResponses : CommandRecv(resp)

\* The module without commands: lifecycle calls and the subscription loop.
Next == Lifecycle \/ Supervisor

Spec == Init /\ [][Next]_vars

(***************************************************************************)
(* The commands, running against one runtime whose server answers from a   *)
(* narrower set: the commands only read the session and the connections.   *)
(***************************************************************************)
QuietServicePolls ==
    { [status |-> "ok", body |-> [kind |-> "null"]],
      [status |-> "ok", body |-> Body(<<SvcEntry("c1", DELETE_EVENT, Absent, Absent, Absent, Absent)>>)],
      [status |-> "ok", body |-> Body(<<SvcEntry("c1", Absent, "c1", "r2", "e1", "d1")>>)],
      [status |-> "401", body |-> [kind |-> "absent"]] }

CmdLifecycle ==
    \/ InitModule(TRUE)
    \/ Destroy
    \/ StopEnd

CmdSupervisor ==
    \/ \E resp \in {"ok", "403"} : LoginRecv(resp)
    \/ EnterEnsuring
    \/ CreateEpRecv([status |-> "ok", body |-> [kind |-> "object", id |-> "subE", entries |-> <<>>]])
    \/ SetEndpoints
    \/ \E resp \in CreateResponses("subS", InitialServicePayloads) : CreateSvcRecv(resp)
    \/ SetConnections
    \/ Connected
    \/ PollEpRecv([status |-> "ok", body |-> [kind |-> "null"]])
    \/ \E resp \in QuietServicePolls : PollSvcRecv(resp)
    \/ NextTick
    \/ CleanupDeleteEp("ok")
    \/ CleanupDeleteSvc("ok")
    \/ CleanupLogout("ok")
    \/ BackoffElapsed

CmdNext == CmdLifecycle \/ CmdSupervisor \/ Commands

CmdSpec == Init /\ [][CmdNext]_vars

(***************************************************************************)
(* The retry schedule on its own: one recurrence per step                  *)
(***************************************************************************)
ScheduleNext(pct) ==
    /\ sched.n < MaxSched
    /\ sched' = [n |-> sched.n + 1,
                 base |-> reconnectSchedule(sched.n),
                 ms |-> jittered(reconnectSchedule(sched.n), pct)]
    /\ UNCHANGED <<lifeVars, status, session, storeVars, pc, localVars, error,
                   interrupted, retryVars, cmd, obs, tick, snap, calc, call, host>>

SchedNext == \E pct \in Jitters : ScheduleNext(pct)

SchedSpec == Init /\ [][SchedNext]_vars

(***************************************************************************)
(* The module under a fair scheduler: a fiber that can take a step         *)
(* eventually takes one (requests are answered, timers fire).              *)
(***************************************************************************)
LiveSpec == Init /\ [][Next]_vars /\ WF_vars(Supervisor)

(***************************************************************************)
(* The subscription loop over a routed system: one runtime, no endpoints,  *)
(* one or two connections to the destination d1, and service polls that    *)
(* delete, re-send and add connections                                     *)
(***************************************************************************)
RoutedServicePayloads ==
    { <<SvcEntry("c1", Absent, "c1", "r1", "e1", "d1")>>,
      <<SvcEntry("c1", Absent, "c1", "r1", "e1", "d1"),
        SvcEntry("c2", Absent, "c2", "r1", "e2", "d1")>> }

RoutedServicePolls ==
    { [status |-> "ok", body |-> [kind |-> "null"]],
      [status |-> "ok", body |-> Body(<<SvcEntry("c1", DELETE_EVENT, Absent, Absent, Absent, Absent)>>)],
      [status |-> "ok", body |-> Body(<<SvcEntry("c2", DELETE_EVENT, Absent, Absent, Absent, Absent)>>)],
      [status |-> "ok", body |-> Body(<<SvcEntry("c1", Absent, "c1", "r1", "e1", "d1")>>)],
      [status |-> "ok", body |-> Body(<<SvcEntry("c1", DELETE_EVENT, Absent, Absent, Absent, Absent),
                                        SvcEntry("c3", Absent, "c3", "r1", "e2", "d1")>>)],
      [status |-> "401", body |-> [kind |-> "absent"]] }

PollSupervisor ==
    \/ LoginRecv("ok")
    \/ EnterEnsuring
    \/ CreateEpRecv([status |-> "ok", body |-> [kind |-> "object", id |-> "subE", entries |-> <<>>]])
    \/ SetEndpoints
    \/ \E resp \in CreateResponses("subS", RoutedServicePayloads) : CreateSvcRecv(resp)
    \/ SetConnections
    \/ Connected
    \/ PollEpRecv([status |-> "ok", body |-> [kind |-> "null"]])
    \/ \E resp \in RoutedServicePolls : PollSvcRecv(resp)
    \/ NextTick
    \/ CleanupDeleteEp("ok")
    \/ CleanupDeleteSvc("ok")
    \/ CleanupLogout("ok")
    \/ BackoffElapsed

PollNext == InitModule(TRUE) \/ PollSupervisor

PollSpec == Init /\ [][PollNext]_vars

(***************************************************************************)
(* Readers of the store: getSnapshot is Effect.all over Ref.get of the     *)
(* endpoints and Ref.get of the connections.  Both are synchronous effects *)
(* of the calling fiber: fibers are scheduled cooperatively and give way   *)
(* only at an asynchronous effect, so the subscription loop, which gives   *)
(* way at each request to the server, runs before or after the two reads.  *)
(***************************************************************************)
\* A snapshot whose two reads are taken at different moments.
tornSnapshot(endpoints, connections, earlier) ==
    [endpoints |-> earlier, connections |-> connections.val]

\* Effect.all({endpoints: Ref.get(endpointsRef), connections: Ref.get(connectionsRef)}):
\* two synchronous effects of one fiber, run in one turn of the scheduler
getSnapshot(endpoints, connections, earlier) ==
    [endpoints |-> endpoints.val, connections |-> connections.val]

\* withSnapshot: needs a runtime; the callback receives the snapshot
withSnapshot ==
    /\ runtime = "live"
    /\ LET snapshot == getSnapshot(endpointsRef, connectionsRef, snap.earlier) IN
       snap' = [snap EXCEPT !.stage = "done",
                            !.endpoints = snapshot.endpoints,
                            !.connections = snapshot.connections,
                            !.heldEndpoints = endpointsRef.val,
                            !.heldConnections = connectionsRef.val]
    /\ UNCHANGED <<lifeVars, status, session, storeVars, pc, localVars, error,
                   interrupted, retryVars, cmd, obs, tick, sched, calc, call, host>>

\* one runtime, its subscription loop and the readers of its store
SnapNext == InitModule(TRUE) \/ Supervisor \/ withSnapshot

SnapSpec == Init /\ [][SnapNext]_vars

(***************************************************************************)
(* The store driven alone: its setters, its updates with the delta         *)
(* appliers and its lookup, applied to the Maps it may hold and to the     *)
(* payloads and deltas the server may send                                 *)
(***************************************************************************)
\* the Maps the store may hold: what the parsers build from a payload
EndpointMaps == { [ref |-> 0, val |-> parseEndpoints(p)] : p \in Payloads(StoreEndpointEntries) }

ConnectionMaps == { [ref |-> 0, val |-> parseConnections(p)] : p \in Payloads(StoreServiceEntries) }

\* One operation is applied to one Map (calc.op = "none"): the operations
\* are pure, what one returns does not depend on the operations before it.
Ran(op, input, before, after) ==
    [NoCalc EXCEPT !.op = op, !.input = input, !.before = before, !.after = after]

\* Ref.set(endpointsRef, endpoints) with the Map parseEndpoints built (new Map())
StoreSetEndpoints(current, payload) ==
    /\ calc.op = "none"
    /\ calc' = Ran("setEndpoints", Body(payload), current,
                   [ref |-> NewRef({current.ref}), val |-> parseEndpoints(payload)])
    /\ UNCHANGED <<lifeVars, status, session, storeVars, pc, localVars, error,
                   interrupted, retryVars, cmd, obs, tick, sched, snap, call, host>>

\* Ref.set(connectionsRef, connections) with the Map parseConnections built
StoreSetConnections(current, payload) ==
    /\ calc.op = "none"
    /\ calc' = Ran("setConnections", Body(payload), current,
                   [ref |-> NewRef({current.ref}), val |-> parseConnections(payload)])
    /\ UNCHANGED <<lifeVars, status, session, storeVars, pc, localVars, error,
                   interrupted, retryVars, cmd, obs, tick, sched, snap, call, host>>

\* updateEndpoints((current) => applyEndpointDelta(current, delta))
StoreUpdateEndpoints(current, delta) ==
    /\ calc.op = "none"
    /\ calc' = Ran("updateEndpoints", delta, current, applyEndpointDelta(current, delta))
    /\ UNCHANGED <<lifeVars, status, session, storeVars, pc, localVars, error,
                   interrupted, retryVars, cmd, obs, tick, sched, snap, call, host>>

\* updateConnections((current) => applyConnectionDelta(current, delta))
StoreUpdateConnections(current, delta) ==
    /\ calc.op = "none"
    /\ calc' = Ran("updateConnections", delta, current, applyConnectionDelta(current, delta))
    /\ UNCHANGED <<lifeVars, status, session, storeVars, pc, localVars, error,
                   interrupted, retryVars, cmd, obs, tick, sched, snap, call, host>>

\* The entries of a payload applied one by one, each as a delta of one entry.
\* same tells whether every step so far returned the Map it was given; a Map
\* created on the way is none of the Maps that existed before.
RECURSIVE ReplayEndpointsFrom(_, _, _, _, _)
ReplayEndpointsFrom(first, current, payload, i, same) ==
    IF i > Len(payload)
    THEN IF same THEN first ELSE [ref |-> NewRef({first.ref}), val |-> current.val]
    ELSE LET after == applyEndpointDelta(current, Body(<<payload[i]>>))
         IN ReplayEndpointsFrom(first, after, payload, i + 1, same /\ after.ref = current.ref)

ReplayEndpoints(current, payload) == ReplayEndpointsFrom(current, current, payload, 1, TRUE)

RECURSIVE ReplayConnectionsFrom(_, _, _, _, _)
ReplayConnectionsFrom(first, current, payload, i, same) ==
    IF i > Len(payload)
    THEN IF same THEN first ELSE [ref |-> NewRef({first.ref}), val |-> current.val]
    ELSE LET after == applyConnectionDelta(current, Body(<<payload[i]>>))
         IN ReplayConnectionsFrom(first, after, payload, i + 1, same /\ after.ref = current.ref)

ReplayConnections(current, payload) == ReplayConnectionsFrom(current, current, payload, 1, TRUE)

\* a full payload parsed (before), replayed on the empty map (after) and
\* replayed on the parsed map (again)
RoundTripEndpoints(payload) ==
    LET parsed == [ref |-> NewRef({}), val |-> parseEndpoints(payload)] IN
    /\ calc.op = "none"
    /\ calc' = [Ran("roundTripEndpoints", Body(payload), parsed,
                    ReplayEndpoints(EmptyMap, payload))
                EXCEPT !.again = ReplayEndpoints(parsed, payload)]
    /\ UNCHANGED <<lifeVars, status, session, storeVars, pc, localVars, error,
                   interrupted, retryVars, cmd, obs, tick, sched, snap, call, host>>

RoundTripConnections(payload) ==
    LET parsed == [ref |-> NewRef({}), val |-> parseConnections(payload)] IN
    /\ calc.op = "none"
    /\ calc' = [Ran("roundTripConnections", Body(payload), parsed,
                    ReplayConnections(EmptyMap, payload))
                EXCEPT !.again = ReplayConnections(parsed, payload)]
    /\ UNCHANGED <<lifeVars, status, session, storeVars, pc, localVars, error,
                   interrupted, retryVars, cmd, obs, tick, sched, snap, call, host>>

\* state.getConnectionForDestination(destId) on the stored connections
Lookup(current, destId) ==
    /\ calc.op = "none"
    /\ calc' = [Ran("lookup", [kind |-> "null"], current, current)
                EXCEPT !.dest = destId,
                       !.found = getConnectionForDestination(current.val, destId)]
    /\ UNCHANGED <<lifeVars, status, session, storeVars, pc, localVars, error,
                   interrupted, retryVars, cmd, obs, tick, sched, snap, call, host>>

\* updateConnections with a polled delta, then the lookup executeDisconnect
\* makes for a destination
StoreResolve(current, delta, destId) ==
    /\ calc.op = "none"
    /\ LET after == applyConnectionDelta(current, delta)
       IN  calc' = [Ran("resolve", delta, current, after)
                    EXCEPT !.dest = destId,
                           !.found = getConnectionForDestination(after.val, destId)]
    /\ UNCHANGED <<lifeVars, status, session, storeVars, pc, localVars, error,
                   interrupted, retryVars, cmd, obs, tick, sched, snap, call, host>>

\* updateEndpoints with a delta that carries the entry x, then with a delta
\* that carries a delete-tagged entry under the key of x
StoreCreateDeleteEndpoint(current, x) ==
    /\ calc.op = "none"
    /\ LET made == applyEndpointDelta(current, Body(<<x>>))
           delta == Body(<<EpEntry(x.key, DELETE_EVENT, Absent, Absent, Absent)>>)
       IN  calc' = [Ran("createDeleteEndpoint", Body(<<x>>), current, applyEndpointDelta(made, delta))
                    EXCEPT !.again = made, !.dest = x.key]
    /\ UNCHANGED <<lifeVars, status, session, storeVars, pc, localVars, error,
                   interrupted, retryVars, cmd, obs, tick, sched, snap, call, host>>

\* the same for updateConnections
StoreCreateDeleteConnection(current, x) ==
    /\ calc.op = "none"
    /\ LET made == applyConnectionDelta(current, Body(<<x>>))
           delta == Body(<<SvcEntry(x.key, DELETE_EVENT, Absent, Absent, Absent, Absent)>>)
       IN  calc' = [Ran("createDeleteConnection", Body(<<x>>), current, applyConnectionDelta(made, delta))
                    EXCEPT !.again = made, !.dest = x.key]
    /\ UNCHANGED <<lifeVars, status, session, storeVars, pc, localVars, error,
                   interrupted, retryVars, cmd, obs, tick, sched, snap, call, host>>

\* a key the server nested under another one: "n:e1"
KeyPrefixes == {"n"}

Compound(prefix, k) == prefix \o ":" \o k

\* key is a compound key that ends in ":k"
EndsWithKey(key, k) == \E prefix \in KeyPrefixes : key = Compound(prefix, k)

\* entries stored under their own key: a plain key, a compound key that ends
\* in it, another plain key
KeyedEndpointEntries ==
    { EpEntry("e1", Absent, Absent, "A", "In"),
      EpEntry(Compound("n", "e1"), Absent, Absent, "N", "In"),
      EpEntry("e2", Absent, Absent, "B", "Out") }

KeyedServiceEntries ==
    { SvcEntry("c1", Absent, Absent, "r1", "e1", "d1"),
      SvcEntry(Compound("n", "c1"), Absent, Absent, "r1", "e1", "d2"),
      SvcEntry("c2", Absent, Absent, "r1", "e2", "d2") }

KeyedEndpointMaps ==
    { [ref |-> 0, val |-> parseEndpoints(p)] : p \in Payloads(KeyedEndpointEntries) }

KeyedConnectionMaps ==
    { [ref |-> 0, val |-> parseConnections(p)] : p \in Payloads(KeyedServiceEntries) }

\* updateEndpoints with a delta of one delete-tagged entry under key k
StoreDeleteEndpoint(current, k) ==
    /\ calc.op = "none"
    /\ LET delta == Body(<<EpEntry(k, DELETE_EVENT, Absent, Absent, Absent)>>)
       IN  calc' = [Ran("deleteEndpoint", delta, current, applyEndpointDelta(current, delta))
                    EXCEPT !.dest = k]
    /\ UNCHANGED <<lifeVars, status, session, storeVars, pc, localVars, error,
                   interrupted, retryVars, cmd, obs, tick, sched, snap, call, host>>

\* updateConnections with a delta of one delete-tagged entry under key k
StoreDeleteConnection(current, k) ==
    /\ calc.op = "none"
    /\ LET delta == Body(<<SvcEntry(k, DELETE_EVENT, Absent, Absent, Absent, Absent)>>)
       IN  calc' = [Ran("deleteConnection", delta, current, applyConnectionDelta(current, delta))
                    EXCEPT !.dest = k]
    /\ UNCHANGED <<lifeVars, status, session, storeVars, pc, localVars, error,
                   interrupted, retryVars, cmd, obs, tick, sched, snap, call, host>>

StoreNext ==
    \/ \E current \in EndpointMaps, x \in StoreEndpointEntries :
          StoreCreateDeleteEndpoint(current, x)
    \/ \E current \in ConnectionMaps, x \in StoreServiceEntries :
          StoreCreateDeleteConnection(current, x)
    \/ \E current \in ConnectionMaps, delta \in StoreServiceDeltas, destId \in Destinations :
          StoreResolve(current, delta, destId)
    \/ \E current \in KeyedEndpointMaps, k \in {"e1", "e2", "e9"} : StoreDeleteEndpoint(current, k)
    \/ \E current \in KeyedConnectionMaps, k \in {"c1", "c2", "c9"} : StoreDeleteConnection(current, k)
    \/ \E current \in EndpointMaps, payload \in Payloads(StoreEndpointEntries) :
          StoreSetEndpoints(current, payload)
    \/ \E current \in ConnectionMaps, payload \in Payloads(StoreServiceEntries) :
          StoreSetConnections(current, payload)
    \/ \E current \in EndpointMaps, delta \in StoreEndpointDeltas :
          StoreUpdateEndpoints(current, delta)
    \/ \E current \in ConnectionMaps, delta \in StoreServiceDeltas :
          StoreUpdateConnections(current, delta)
    \/ \E payload \in Payloads(StoreEndpointEntries) : RoundTripEndpoints(payload)
    \/ \E payload \in Payloads(StoreServiceEntries) : RoundTripConnections(payload)
    \/ \E current \in ConnectionMaps, destId \in Destinations : Lookup(current, destId)

StoreSpec == Init /\ [][StoreNext]_vars

(***************************************************************************)
(* The client driven alone: login, logout, get and post called one after   *)
(* the other on one client, against a server free in its answers           *)
(***************************************************************************)
ClientTokens == {"s1", "s2"}

ClientStatuses == {"ok", "401", "403", "500", "neterr"}

\* a body that is not JSON, the JSON null, a JSON object
ClientBodies == {[kind |-> "absent"], [kind |-> "null"], Body(<<>>)}

ClientResponses == {[status |-> st, body |-> b] : st \in ClientStatuses, b \in ClientBodies}

\* the record of a call: what was answered (when a request was sent), the
\* session held before it, and how it ended
Called(op, arg, sent, answered, bodyKind, result, decoded) ==
    [op |-> op, n |-> call.n + 1, arg |-> arg,
     status |-> IF sent THEN answered ELSE "unsent",
     body |-> IF sent THEN bodyKind ELSE "unsent",
     before |-> session, sent |-> sent,
     ok |-> result.ok, err |-> IF result.ok THEN NoError ELSE result.err,
     decoded |-> decoded]

ClientLogin(resp, token) ==
    /\ call.n < MaxCalls
    /\ LET r == login(resp, token)
       IN  /\ session' = sessionAfterLogin(session, r)
           /\ call' = Called("login", token, TRUE, resp, "none", r, FALSE)
    /\ UNCHANGED <<lifeVars, status, storeVars, pc, localVars, error, interrupted,
                   retryVars, cmd, obs, tick, sched, snap, calc, host>>

ClientLogout(resp) ==
    /\ call.n < MaxCalls
    /\ LET lo == logout(session, resp)
       IN  /\ session' = lo.session
           /\ call' = Called("logout", "none", lo.sent, resp, "none", lo.result, FALSE)
    /\ UNCHANGED <<lifeVars, status, storeVars, pc, localVars, error, interrupted,
                   retryVars, cmd, obs, tick, sched, snap, calc, host>>

ClientGet(resp) ==
    /\ call.n < MaxCalls
    /\ LET r == get(session, resp)
       IN  call' = Called("get", "none", getSession(session).ok, resp.status, resp.body.kind,
                          r, r.ok /\ r.value = resp.body)
    /\ UNCHANGED <<lifeVars, status, session, storeVars, pc, localVars, error, interrupted,
                   retryVars, cmd, obs, tick, sched, snap, calc, host>>

ClientPost(resp) ==
    /\ call.n < MaxCalls
    /\ LET r == post(session, resp)
       IN  call' = Called("post", "none", getSession(session).ok, resp.status, resp.body.kind,
                          r, r.ok /\ r.value = resp.body)
    /\ UNCHANGED <<lifeVars, status, session, storeVars, pc, localVars, error, interrupted,
                   retryVars, cmd, obs, tick, sched, snap, calc, host>>

ClientNext ==
    \/ \E resp \in LoginResponses, token \in ClientTokens : ClientLogin(resp, token)
    \/ \E resp \in CleanupResponses : ClientLogout(resp)
    \/ \E resp \in ClientResponses : ClientGet(resp)
    \/ \E resp \in ClientResponses : ClientPost(resp)

ClientSpec == Init /\ [][ClientNext]_vars

(***************************************************************************)
(* The lifecycle with its calls repeated: init called again on an instance *)
(* that was initialised, destroy called again on one that was destroyed    *)
(***************************************************************************)
\* init(config) on an instance already initialised: this.config = config,
\* then startConnection() with no stopConnection before it
InitAgain(cfg) ==
    /\ lifeOp \in {"idle", "destroyed"}
    /\ host.reinits < MaxRepeats
    /\ lifeOp' = "idle"
    /\ config' = cfg
    /\ startConnectionFrom(cfg, [host EXCEPT !.reinits = @ + 1])
    /\ UNCHANGED <<cmd, sched, snap, calc, call>>

\* destroy() on an instance already destroyed: stopConnection once more
DestroyAgain ==
    /\ lifeOp = "destroyed"
    /\ host.restops < MaxRepeats
    /\ UNCHANGED config
    /\ IF ~stopNeeded(runtime)
       THEN /\ host' = [host EXCEPT !.restops = @ + 1]
            /\ UNCHANGED <<runtime, lifeOp, status, session, storeVars, pc, localVars, error,
                           interrupted, retryVars, cmd, obs, tick, sched, snap, calc, call>>
       ELSE stopBegin("destroy")

LifeNext ==
    \/ \E cfg \in BOOLEAN : InitModule(cfg)
    \/ \E cfg \in BOOLEAN : ConfigUpdated(cfg)
    \/ Destroy
    \/ StopEnd
    \/ Restart
    \/ \E cfg \in BOOLEAN : InitAgain(cfg)
    \/ DestroyAgain
    \/ PollSupervisor

LifeSpec == Init /\ [][LifeNext]_vars

(***************************************************************************)
(* The lifecycle with its calls overlapping: configUpdated and destroy are *)
(* async functions that await stopConnection, and the host may deliver the *)
(* next call while dispose() is pending.  A call runs without interruption *)
(* up to its await of dispose(); the continuations after an await are      *)
(* microtasks: those of several calls interleave, and no new call of the   *)
(* host is delivered before they have all run.                             *)
(***************************************************************************)
\* startConnection: this.runtime = ManagedRuntime.make(fullLayer), unless the
\* configuration is incomplete
runtimeMade(h) ==
    IF h.cfg THEN [h EXCEPT !.made = @ + 1, !.ref = h.made + 1] ELSE h

OverlapUnchanged ==
    UNCHANGED <<lifeVars, status, session, storeVars, pc, localVars, error,
                interrupted, retryVars, cmd, obs, tick, sched, snap, calc, call>>

\* init(config): this.config = config; startConnection()
OverlapInit(cfg) ==
    /\ ~host.inited
    /\ host' = runtimeMade([host EXCEPT !.inited = TRUE, !.cfg = cfg])
    /\ OverlapUnchanged

\* the call returns: configUpdated calls startConnection(), destroy nothing
returned(h, i) ==
    IF h.calls[i].op = "configUpdated"
    THEN runtimeMade([h EXCEPT !.calls[i].stage = "done"])
    ELSE [h EXCEPT !.calls[i].stage = "done"]

\* stopConnection up to its await: `if (this.runtime)` then dispose() is
\* called on the runtime the field holds now; with no runtime nothing is
\* awaited and the call runs to its end
stopCalled(h, i, op) ==
    IF h.ref # 0
    THEN [h EXCEPT !.stopping = @ \cup {h.ref},
                   !.calls[i] = [op |-> op, stage |-> "disposing", target |-> h.ref]]
    ELSE returned([h EXCEPT !.calls[i] = [op |-> op, stage |-> "stopped", target |-> 0]], i)

\* the host delivers call i: the calls before it were delivered, none of
\* them was a destroy, and no continuation is waiting to run
Deliverable(i) ==
    /\ host.inited
    /\ host.calls[i].op = "none"
    /\ \A j \in 1..(i - 1) : host.calls[j].op \notin {"none", "destroy"}
    /\ \A j \in 1..MaxCalls : host.calls[j].stage # "stopped"

\* configUpdated(config) is delivered: this.config = config; await this.stopConnection()
OverlapConfigUpdated(i, cfg) ==
    /\ Deliverable(i)
    /\ host' = stopCalled([host EXCEPT !.cfg = cfg], i, "configUpdated")
    /\ OverlapUnchanged

\* destroy() is delivered: await this.stopConnection()
OverlapDestroy(i) ==
    /\ Deliverable(i)
    /\ host' = stopCalled(host, i, "destroy")
    /\ OverlapUnchanged

\* the scope of runtime r is closed: its fiber has ended, dispose() resolves
DisposeResolved(r) ==
    /\ r \in host.stopping \ host.disposed
    /\ host' = [host EXCEPT !.disposed = @ \cup {r}]
    /\ OverlapUnchanged

\* stopConnection after its await: this.runtime = null, whatever it holds now
StopResumed(i) ==
    /\ host.calls[i].stage = "disposing"
    /\ host.calls[i].target \in host.disposed
    /\ host' = [host EXCEPT !.ref = 0, !.calls[i].stage = "stopped"]
    /\ OverlapUnchanged

\* the caller of stopConnection after its await: configUpdated calls
\* startConnection(), destroy returns
StopReturned(i) ==
    /\ host.calls[i].stage = "stopped"
    /\ host' = returned(host, i)
    /\ OverlapUnchanged

OverlapNext ==
    \/ \E cfg \in BOOLEAN : OverlapInit(cfg)
    \/ \E i \in 1..MaxCalls, cfg \in BOOLEAN : OverlapConfigUpdated(i, cfg)
    \/ \E i \in 1..MaxCalls : OverlapDestroy(i)
    \/ \E r \in 1..(MaxCalls + 1) : DisposeResolved(r)
    \/ \E i \in 1..MaxCalls : StopResumed(i)
    \/ \E i \in 1..MaxCalls : StopReturned(i)

OverlapSpec == Init /\ [][OverlapNext]_vars

(***************************************************************************)
(* Properties of the subscription loop                                     *)
(***************************************************************************)
\* C1: no episode ends (in a backoff wait or by cancellation) while the
\* client still holds a session or while a subscription created in the
\* episode has had no deletion attempted.
C1_CleanupOnEveryEnd ==
    pc \in EndedPcs =>
        /\ session = NoSession
        /\ endpointSubId # Null => "ep" \in obs.delAttempted
        /\ serviceSubId # Null => "svc" \in obs.delAttempted

\* C2: a poll tick that has ended and left another endpoints map (resp.
\* connections map) in the store has invoked the endpoints (resp.
\* connections) changed callback exactly once.
C2_ChangedTickNotified ==
    tick.phase = "ended" =>
        /\ tick.epDiff => tick.epCb = 1
        /\ tick.connDiff => tick.connCb = 1

\* C3: a changed callback is invoked in a poll tick at most once, and only
\* if the tick left another map value in the store: heartbeats, re-sent
\* identical records and deletes of absent keys notify nobody.
C3_NoSpuriousCallback ==
    /\ tick.epCb <= 1
    /\ tick.connCb <= 1
    /\ tick.epCb = 1 => tick.epDiff
    /\ tick.connCb = 1 => tick.connDiff

\* C3 witness: a tick whose endpoint poll carried a delta that changed
\* nothing ended without an endpoints callback, while its connections delta
\* changed the store and was notified.
C3_Witness ==
    /\ pc = "sleep"
    /\ tick.phase = "ended"
    /\ tick.epBody = "delta"
    /\ ~tick.epDiff
    /\ tick.epCb = 0
    /\ tick.connDiff
    /\ tick.connCb = 1

\* C4: no episode is terminated by a poll whose response carried no change
\* (here: a 2xx response without a body).
C4_NoChangePollSkipped ==
    ~(/\ error # NoError
      /\ error.phase \in {"pollEndpoint", "pollService"}
      /\ error.cause = ApiRequestError("badjson"))

\* C5 (as stated): a failed login ends the episode with an AuthenticationError
\* as the reported failure.
C5_ReportsAuthenticationError ==
    [][(pc = "login" /\ pc' = "backoff") =>
         status'.reason.tag = "AuthenticationError"]_vars

\* C5 (amended): a failed login ends the episode with a SubscriptionError
\* whose cause is the AuthenticationError; no subscription is created, no
\* deletion is attempted, disconnected fires once with that failure as the
\* reason, connected does not fire, and the first failure schedules the
\* retry after 1 second before jitter.
C5_LoginFailure ==
    [][(pc = "login" /\ pc' = "backoff") =>
         /\ status'.s = "ConnectionFailure"
         /\ status'.reason.tag = "SubscriptionError"
         /\ status'.reason.cause.tag = "AuthenticationError"
         /\ endpointSubId' = Null
         /\ serviceSubId' = Null
         /\ session' = NoSession
         /\ obs'.delAttempted = {}
         /\ obs'.disconnected = 1
         /\ obs'.connected = 0
         /\ attempt = 0 => lastDelay' = 1]_vars

\* C5 witness: the first login of a supervisor was answered 403 and the
\* retry waits 1 second.
C5_Witness ==
    /\ pc = "backoff"
    /\ status.s = "ConnectionFailure"
    /\ status.reason.cause = AuthenticationError("403")
    /\ obs.disconnected = 1
    /\ attempt = 1
    /\ lastDelay = 1

\* C6: under a fair scheduler a live supervisor that is not connected gets
\* connected, unless it is cancelled; every backoff wait is followed by
\* another episode, however many episodes have failed.
C6_EventuallyConnected ==
    /\ (runtime = "live" /\ status.s # "Ok") ~> (status.s = "Ok" \/ runtime # "live")
    /\ (runtime = "live" /\ pc = "backoff") ~> (pc = "login" \/ runtime # "live")

\* C6 witness: a supervisor is connected after as many failed episodes as
\* the model explores.
C6_Witness ==
    /\ runtime = "live"
    /\ status.s = "Ok"
    /\ attempt = MaxFailures

\* C7: the delay scheduled for the n-th retry is min(2^(n-1), 30) seconds
\* before jitter, never above 30 seconds, and the jittered delay lies within
\* 80% and 120% of it.
C7_DelayBeforeRetry ==
    sched.n >= 1 =>
        /\ sched.base = Min(Pow(2, sched.n - 1), 30)
        /\ sched.base <= 30
        /\ sched.ms >= sched.base * 800
        /\ sched.ms <= sched.base * 1200

\* C7 witness: the 6th retry is the first one the cap applies to (2^5 = 32).
C7_Witness ==
    /\ sched.n = 6
    /\ sched.base = 30
    /\ sched.ms = 36000

\* C8: when the disposal of the runtime has interrupted a fiber whose client
\* held a session, the fiber has ended only after the cleanup has logged out.
C8_CancelRunsCleanup ==
    (runtime = "disposing" /\ pc = "done" /\ obs.cancelSession) =>
        (obs.logout /\ session = NoSession)

C10_DisconnectResolvesConnection ==
    [][(cmd.stage = "idle" /\ cmd' # cmd /\ cmd'.kind = "disconnect") =>
         LET stored == {connectionsRef.val[i].v : i \in 1..Len(connectionsRef.val)}
             found == {c \in stored : c.to = cmd'.to}
         IN /\ cmd'.stage = "inflight" =>
                  \E c \in found : cmd'.req = disconnectRequest(c.id, c.rev)
            /\ (runtime # "none" /\ found = {}) =>
                  /\ cmd'.stage = "idle"
                  /\ cmd'.req = NoRequest
                  /\ cmd'.outcome = Carrying(Fail(ConnectionError("noConnection")), "", cmd'.to)]_vars

\* C10 witness: a teardown request is on the wire with the revision the
\* last service poll stored for the connection to d1.
C10_Witness ==
    /\ cmd.kind = "disconnect"
    /\ cmd.stage = "inflight"
    /\ cmd.to = "d1"
    /\ cmd.req = disconnectRequest("c1", "r2")

C13_StrategyForwarded ==
    (cmd.kind = "route" /\ cmd.stage = "inflight") =>
        cmd.req.conflictStrategy = cmd.strategy

\* C14: a step of executeRoute or executeDisconnect (the invocation, the
\* answer of the server, the timeout) leaves the stored endpoints map and
\* the stored connections map as they were, wherever the subscription loop
\* stands.
C14_CommandsLeaveStore ==
    [][cmd' # cmd => (endpointsRef' = endpointsRef /\ connectionsRef' = connectionsRef)]_vars

\* C14 witness: a teardown request for the connection to d1 has succeeded
\* and the store still holds that connection.
C14_Witness ==
    /\ cmd.kind = "disconnect"
    /\ cmd.stage = "idle"
    /\ cmd.answer # NoAnswer
    /\ cmd.outcome.ok
    /\ getConnectionForDestination(connectionsRef.val, "d1") # NoConnection

StoreWrites == {"setEndpoints", "setConnections", "updateEndpoints", "updateConnections"}

StoreUpdates == {"updateEndpoints", "updateConnections"}

\* C16: a setter or an update of the store never alters the Map the store held
\* before it, which readers may still hold: when the Map it leaves in the store
\* is that same Map object, its entries are those it had, and when the entries
\* differ it is another Map object.
C16_PublishedMapUnaltered ==
    calc.op \in StoreWrites => (calc.after.ref = calc.before.ref => calc.after.val = calc.before.val)

\* C16 witness: an update has removed or replaced an entry of a map that held
\* entries, and has left another Map object in the store.
C16_Witness ==
    /\ calc.op \in StoreUpdates
    /\ calc.before.val # <<>>
    /\ calc.after.val # calc.before.val
    /\ calc.after.ref # calc.before.ref

\* C17: applyEndpointDelta(M, d) and applyConnectionDelta(M, d) return M itself
\* exactly when the result has the entries of M: the very same Map when d adds,
\* removes and changes nothing (a body that is no object, an empty delta,
\* heartbeat entries, a delete of an absent key, a record re-sent unchanged),
\* and another Map only when the entries differ.
C17_IdentityIffUnchanged ==
    calc.op \in StoreUpdates =>
        LET M == calc.before
            d == calc.input
            idle(x) ==
                \/ ~x.obj
                \/ x.e = UPDATE_EVENT
                \/ x.e = DELETE_EVENT /\ ~Has(M.val, x.key)
                \/ /\ x.e \notin {DELETE_EVENT, UPDATE_EVENT}
                   /\ LET parsed == IF calc.op = "updateEndpoints"
                                    THEN parseEndpoints(EndpointNode(x))
                                    ELSE parseConnections(ServiceNode(x))
                      IN \A j \in 1..Len(parsed) :
                            Has(M.val, parsed[j].k) /\ Get(M.val, parsed[j].k) = parsed[j].v
            noOp == d.kind # "object" \/ \A i \in 1..Len(d.entries) : idle(d.entries[i])
        IN /\ (calc.after.ref = M.ref) <=> (calc.after.val = M.val)
           /\ noOp => calc.after = M

\* C17 witness: a delta with entries (a heartbeat, a delete of an absent key or
\* a record re-sent unchanged) was applied to a map that holds entries, and the
\* very same Map came back.
C17_Witness ==
    /\ calc.op \in StoreUpdates
    /\ calc.before.val # <<>>
    /\ calc.input.kind = "object"
    /\ calc.input.entries # <<>>
    /\ calc.after.ref = calc.before.ref

RoundTrips == {"roundTripEndpoints", "roundTripConnections"}

\* C18 as stated: for every full payload P without event tags, the entries of
\* P applied one by one as deltas to the empty map give the records of
\* parseEndpoints(P) (parseConnections(P)), and applied to the parsed map they
\* return that same map.
C18_RoundTrip ==
    calc.op \in RoundTrips =>
        /\ calc.after.val = calc.before.val
        /\ calc.again = calc.before

\* C18 amended: the round trip holds for the payloads in which no entry is
\* named like a node of the path the parsers walk (data, status, conman,
\* endpoints or services) and no two entries that the parser keeps have the
\* same id.
C18_RoundTripPlainKeys ==
    calc.op \in RoundTrips =>
        LET P == calc.input.entries
            walk == IF calc.op = "roundTripEndpoints" THEN EndpointWalkKeys ELSE ServiceWalkKeys
            one(i) == IF calc.op = "roundTripEndpoints"
                      THEN parseEndpoints(<<P[i]>>) ELSE parseConnections(<<P[i]>>)
            plain == /\ \A i \in 1..Len(P) : P[i].key \notin walk
                     /\ \A i, j \in 1..Len(P) : i # j => Keys(one(i)) \cap Keys(one(j)) = {}
        IN plain => /\ calc.after.val = calc.before.val
                    /\ calc.again = calc.before

\* C18 witness: a payload of two entries with plain keys and different ids was
\* parsed into two records and replayed.
C18_Witness ==
    /\ calc.op \in RoundTrips
    /\ Len(calc.before.val) = 2
    /\ \A i \in 1..Len(calc.input.entries) :
          calc.input.entries[i].key \notin (EndpointWalkKeys \cup ServiceWalkKeys)
    /\ calc.again = calc.before

\* C19: getConnectionForDestination(d) returns a connection of the stored map
\* whose `to` is d when the map holds one, and none otherwise; when one stored
\* connection at most goes to d, it returns exactly that one.
C19_LookupByDestination ==
    calc.op = "lookup" =>
        LET stored == Values(calc.before.val)
            going == {i \in 1..Len(stored) : stored[i].to = calc.dest}
        IN /\ going = {} => calc.found = NoConnection
           /\ going # {} => /\ calc.found.to = calc.dest
                            /\ \E i \in going : calc.found = stored[i]
           /\ Cardinality(going) = 1 => \A i \in going : calc.found = stored[i]

\* C19 witness: the map holds two connections, one of them to the destination
\* looked up, stored after the other, and the lookup returned it.
C19_Witness ==
    /\ calc.op = "lookup"
    /\ Len(calc.before.val) = 2
    /\ calc.before.val[1].v.to # calc.dest
    /\ calc.found = calc.before.val[2].v

\* C20 as stated: when the delta of a service poll marks a stored connection
\* as deleted, connectionsChangedCallback fires exactly once in that tick and
\* getConnectionForDestination for the connection's former destination
\* returns none afterwards.
C20_DeleteClearsDestination ==
    [][\A i \in 1..Len(tick'.svcEntries) :
          LET x == tick'.svcEntries[i] IN
          (pc = "pollSvc" /\ pc' = "sleep" /\ x.e = DELETE_EVENT /\ Has(connectionsRef.val, x.key))
          => /\ tick'.connCb = 1
             /\ getConnectionForDestination(connectionsRef'.val,
                                            Get(connectionsRef.val, x.key).to) = NoConnection]_vars

\* C20 amended: the callback fires exactly once in that tick, and the lookup
\* for the former destination returns none provided no other stored
\* connection goes to that destination and the delta brings none that does.
C20_DeleteClearsSoleConnection ==
    [][\A i \in 1..Len(tick'.svcEntries) :
          LET x == tick'.svcEntries[i]
              to == Get(connectionsRef.val, x.key).to
              others == {k \in Keys(connectionsRef.val) \ {x.key} :
                            Get(connectionsRef.val, k).to = to}
              brought == {j \in 1..Len(tick'.svcEntries) :
                            /\ tick'.svcEntries[j].e \notin {DELETE_EVENT, UPDATE_EVENT}
                            /\ tick'.svcEntries[j].to = to}
          IN (pc = "pollSvc" /\ pc' = "sleep" /\ x.e = DELETE_EVENT /\ Has(connectionsRef.val, x.key))
             => /\ tick'.connCb = 1
                /\ ~Has(connectionsRef'.val, x.key)
                /\ (others = {} /\ brought = {})
                     => getConnectionForDestination(connectionsRef'.val, to) = NoConnection]_vars

\* C20 witness: the tick that deleted the only connection to d1 has ended with
\* one connectionsChangedCallback, and no stored connection goes to d1.
C20_Witness ==
    /\ pc = "sleep"
    /\ tick.connCb = 1
    /\ \E i \in 1..Len(tick.svcEntries) : tick.svcEntries[i].e = DELETE_EVENT
    /\ getConnectionForDestination(connectionsRef.val, "d1") = NoConnection

\* C21: in an episode the connected callback fires once, only when the store
\* holds the maps parsed from the two initial payloads of that episode, and
\* with it endpointsChangedCallback and connectionsChangedCallback fire once
\* each, before the first poll of the episode is sent.
C21_ConnectedAfterLoad ==
    [][obs'.connected > obs.connected =>
          /\ obs.connected = 0 /\ obs'.connected = 1
          /\ endpointSubId # Null /\ serviceSubId # Null
          /\ endpointsRef.val = parseEndpoints(obs.epData)
          /\ connectionsRef.val = parseConnections(obs.svcData)
          /\ endpointsRef' = endpointsRef /\ connectionsRef' = connectionsRef
          /\ obs.epInit = 0 /\ obs'.epInit = 1
          /\ obs.connInit = 0 /\ obs'.connInit = 1
          /\ tick.phase = "none" /\ tick' = OpenTick]_vars

\* C21 witness: an episode is connected over a loaded endpoint and a loaded
\* connection, each callback has fired once and the first poll is out.
C21_Witness ==
    /\ obs.connected = 1 /\ obs.epInit = 1 /\ obs.connInit = 1
    /\ pc = "pollEp"
    /\ endpointsRef.val # <<>>
    /\ connectionsRef.val # <<>>
    /\ tick = OpenTick

\* C22 as stated: a poll answered 401 ends the episode with a
\* SessionExpiredError as the failure of the episode.
C22_FailsWithSessionExpired ==
    [][(pc \in {"pollEp", "pollSvc"} /\ "401" \in {tick'.epBody, tick'.svcBody}) =>
          error'.tag = "SessionExpiredError"]_vars

\* C22 amended: a poll answered 401 ends the episode with a SubscriptionError
\* that names the poll and whose cause is the SessionExpiredError; the cleanup
\* of that episode attempts the deletion of both subscriptions and the logout
\* and leaves the client without a session, the failure is reported, and the
\* next episode starts without a session and stores the one its own login
\* obtains.
C22_ExpiredSessionEpisode ==
    [][/\ (pc = "pollEp" /\ tick'.epBody = "401") =>
             /\ error' = SubscriptionError("pollEndpoint", SessionExpiredError)
             /\ pc' = "delEp"
       /\ (pc = "pollSvc" /\ tick'.svcBody = "401") =>
             /\ error' = SubscriptionError("pollService", SessionExpiredError)
             /\ pc' = "delEp"
       /\ (/\ pc = "logout" /\ pc' # pc /\ error # NoError
           /\ error.phase \in {"pollEndpoint", "pollService"}
           /\ error.cause = SessionExpiredError) =>
             /\ obs'.delAttempted = {"ep", "svc"}
             /\ obs'.logout
             /\ session # NoSession /\ session' = NoSession
             /\ ~interrupted => /\ pc' = "backoff"
                                /\ status' = [s |-> "ConnectionFailure", reason |-> error]
       /\ (pc = "backoff" /\ pc' = "login") => (session = NoSession /\ session' = NoSession)
       /\ (pc = "login" /\ pc' = "loggedIn") =>
             (session = NoSession /\ session' = login("ok", Token(attempt)).value)]_vars

\* C22 witness: an episode was ended by a poll answered 401, its cleanup has
\* attempted both deletions and the logout, and the retry is waiting without
\* a session.
C22_Witness ==
    /\ pc = "backoff"
    /\ status.s = "ConnectionFailure"
    /\ status.reason.phase \in {"pollEndpoint", "pollService"}
    /\ status.reason.cause = SessionExpiredError
    /\ obs.delAttempted = {"ep", "svc"}
    /\ obs.logout
    /\ session = NoSession

C24_LoginStoresOnSuccessOnly ==
    call.op = "login" =>
        /\ call.status = "ok" => (call.ok /\ session = call.arg)
        /\ call.status # "ok" =>
              /\ ~call.ok
              /\ call.err.tag = "AuthenticationError"
              /\ session = call.before

\* C24 witness: a client that holds a session logs in again, the response
\* lacks the CSRF token, and the session held before is still held.
C24_Witness ==
    /\ call.op = "login"
    /\ call.status = "notoken"
    /\ ~call.ok
    /\ call.before = "s1"
    /\ session = "s1"

\* C25: every logout succeeds and leaves the client without a session,
\* whatever the server answers to the invalidation request; a logout called
\* without a session sends no request; and a logout that follows a logout
\* sends nothing and leaves the client as the first one left it.
C25_LogoutAlwaysClears ==
    [][(call'.op = "logout" /\ call'.n # call.n) =>
          /\ call'.ok
          /\ session' = NoSession
          /\ call'.sent <=> session # NoSession
          /\ call.op = "logout" => (~call'.sent /\ session' = session)]_vars

\* C25 witness: a client holding a session logged out, the invalidation
\* request got no answer, and the client holds no session.
C25_Witness ==
    /\ call.op = "logout"
    /\ call.before = "s1"
    /\ call.sent
    /\ call.status = "neterr"
    /\ call.ok
    /\ session = NoSession

\* C26: a get or post call ends in exactly one of three ways: with the decoded
\* body, exactly when a session is held and the answer is 2xx with a body that
\* is JSON; with a SessionExpiredError, exactly when no session is held or the
\* answer is 401; with an ApiRequestError, exactly when a session is held and
\* no answer arrives, the status is neither 2xx nor 401, or the body of a 2xx
\* answer is not JSON.
C26_ThreeOutcomes ==
    call.op \in {"get", "post"} =>
        /\ call.ok <=> call.decoded
        /\ call.decoded <=> (call.status = "ok" /\ call.body # "absent")
        /\ ~call.ok => call.err.tag \in {"SessionExpiredError", "ApiRequestError"}
        /\ (~call.ok /\ call.err.tag = "SessionExpiredError") <=>
              call.status \in {"unsent", "401"}
        /\ (~call.ok /\ call.err.tag = "ApiRequestError") <=>
              \/ call.status \in {"neterr", "403", "500"}
              \/ call.status = "ok" /\ call.body = "absent"
        /\ call.sent <=> call.before # NoSession
        /\ session = call.before

\* C26 witness: a post sent with a session was answered 401 and ended with
\* the SessionExpiredError.
C26_Witness ==
    /\ call.op = "post"
    /\ call.sent
    /\ call.status = "401"
    /\ call.err = SessionExpiredError

\* C27: a command sends a request only when it is invoked, and at most one;
\* whatever answers that request ends the command: no request of the command
\* is left or sent again, a failure is the outcome the caller receives, a
\* ConnectionError or a SessionExpiredError, and no step of a command changes
\* the session of the client.
C27_CommandsNotRetried ==
    [][cmd' # cmd =>
          /\ session' = session
          /\ cmd'.req # NoRequest => (cmd.stage = "idle" /\ cmd.req = NoRequest
                                      /\ cmd'.stage = "inflight" /\ cmd'.answer = NoAnswer)
          /\ cmd.stage = "inflight" =>
                /\ cmd'.stage = "idle"
                /\ cmd'.req = NoRequest
                /\ cmd'.answer \in CommandResponses
                /\ cmd'.outcome = Carrying(connectResult(cmd'.answer), cmd.from, cmd.to)
                /\ ~connectResult(cmd'.answer).ok =>
                      /\ ~cmd'.outcome.ok
                      /\ cmd'.outcome.err.tag \in {"ConnectionError", "SessionExpiredError"}]_vars

\* C27 witness: the request of a route command was answered 401, the command
\* has ended with the SessionExpiredError as its outcome, no request is
\* pending, and the client holds the session it held.
C27_Witness ==
    /\ cmd.kind = "route"
    /\ cmd.stage = "idle"
    /\ cmd.answer = [status |-> "401"]
    /\ ~cmd.outcome.ok
    /\ cmd.outcome.err.tag = "SessionExpiredError"
    /\ cmd.req = NoRequest
    /\ session # NoSession

C29_OkOnlyWhilePolling ==
    status.s = "Ok" => pc \in {"pollEp", "pollSvc", "sleep"}

\* C29 amended: a start without host, username or password sets BadConfig,
\* builds no runtime and starts no login; any other start sets Connecting,
\* builds the runtime and starts the login; the status becomes Ok exactly on
\* the step in which an episode reaches Connected, and ConnectionFailure,
\* with the error as its reason, exactly on the step in which the
\* disconnected callback runs; and the status is Ok only while an episode
\* that reached Connected is polling, is running its cleanup after a failure
\* or a stop, or has been stopped with nothing started since.
C29_StatusTransitions ==
    [][/\ (lifeOp \in {"new", "restart"} /\ lifeOp' = "idle") =>
             IF config'
             THEN status' = [s |-> "Connecting", reason |-> NoError]
                  /\ runtime' = "live" /\ pc' = "login" /\ session' = NoSession
             ELSE status' = [s |-> "BadConfig", reason |-> NoError]
                  /\ runtime' = "none" /\ pc' = pc /\ pc' # "login"
       /\ status'.s # status.s =>
             \/ status'.s = "BadConfig" /\ ~config' /\ runtime' = "none"
             \/ status'.s = "Connecting" /\ config' /\ runtime' = "live" /\ pc' = "login"
             \/ status'.s = "Ok" /\ obs'.connected > obs.connected
             \/ status'.s = "ConnectionFailure" /\ obs'.disconnected > obs.disconnected
       /\ obs'.connected > obs.connected =>
             (pc = "connect" /\ status' = [s |-> "Ok", reason |-> NoError])
       /\ obs'.disconnected > obs.disconnected =>
             /\ status'.s = "ConnectionFailure"
             /\ status'.reason # NoError
             /\ pc = "logout" => status'.reason = error
       /\ status'.s = "Ok" =>
             \/ pc' \in {"pollEp", "pollSvc", "sleep"}
             \/ pc' \in CleanupPcs \cup {"done"} /\ obs'.connected = 1
             \/ runtime' = "none" /\ lifeOp' \in {"restart", "destroyed"}]_vars

\* C29 witness: an episode that was connected has failed and is running its
\* cleanup, nothing has stopped it, and the status is still Ok.
C29_Witness ==
    /\ status.s = "Ok"
    /\ pc = "delSvc"
    /\ error # NoError
    /\ ~interrupted
    /\ runtime = "live"

\* C30: when the endpoints subscription exists and the creation of the
\* service subscription gets no answer, a 401, another refusal or an answer
\* without an id, the episode ends with a SubscriptionError that names the
\* creation of the service subscription and carries the failure of the
\* client, no connected callback has run or runs, the cleanup sends the
\* deletion of the endpoints subscription and of no other, then logs out, and
\* an episode that was not stopped meanwhile reports that error.
C30_ServiceSubscriptionFailure ==
    [][/\ (pc = "createSvc" /\ error' # NoError) =>
             /\ error'.tag = "SubscriptionError"
             /\ error'.phase = "createService"
             /\ error'.cause \in {ApiRequestError("neterr"), SessionExpiredError,
                                   ApiRequestError("500"), ApiRequestError("noid")}
             /\ endpointSubId' # Null /\ serviceSubId' = Null
             /\ obs'.connected = 0 /\ obs'.delAttempted = {} /\ ~obs'.logout
             /\ pc' = "delEp"
       /\ (error # NoError /\ error.phase = "createService" /\ pc' # pc) =>
             /\ error' \in {error, NoError}
             /\ obs'.connected = 0
             /\ pc = "delEp" => (pc' = "delSvc" /\ obs'.delAttempted = {"ep"} /\ ~obs'.logout)
             /\ pc = "delSvc" => (pc' = "logout" /\ obs'.delAttempted = {"ep"} /\ ~obs'.logout)
             /\ pc = "logout" =>
                   /\ obs'.delAttempted = {"ep"} /\ obs'.logout /\ session' = NoSession
                   /\ ~interrupted =>
                         /\ status' = [s |-> "ConnectionFailure", reason |-> error]
                         /\ obs'.disconnected = 1
                         /\ pc' = "backoff"]_vars

\* C30 witness: the service subscription was answered without an id, the
\* cleanup has sent the deletion of the endpoints subscription only and has
\* logged out, and the failure was reported.
C30_Witness ==
    /\ pc = "backoff"
    /\ status = [s |-> "ConnectionFailure",
                 reason |-> SubscriptionError("createService", ApiRequestError("noid"))]
    /\ obs.delAttempted = {"ep"}
    /\ obs.logout
    /\ obs.connected = 0
    /\ session = NoSession

\* C31: a delta with a delete-tagged entry under key k leaves in the map
\* exactly the entries it held under keys other than k that are no compound
\* key ending in ":k".
C31_DeleteRemovesCompoundKeys ==
    calc.op \in {"deleteEndpoint", "deleteConnection"} =>
        Keys(calc.after.val) =
            {key \in Keys(calc.before.val) : key # calc.dest /\ ~EndsWithKey(key, calc.dest)}

\* C31, what the appliers do: the entry under k is removed and no other.
C31_DeleteRemovesOwnKeyOnly ==
    calc.op \in {"deleteEndpoint", "deleteConnection"} =>
        Keys(calc.after.val) = Keys(calc.before.val) \ {calc.dest}

\* C31 witness: the map held e1 and the compound key n:e1, the delta deleted
\* e1, and n:e1 is still in the map.
C31_Witness ==
    /\ calc.op = "deleteEndpoint"
    /\ calc.dest = "e1"
    /\ Keys(calc.before.val) = {"e1", Compound("n", "e1")}
    /\ Keys(calc.after.val) = {Compound("n", "e1")}

\* the connections to destId that the delta set: stored after it and either
\* not stored before it or stored with other fields
AppliedTo(before, after, destId) ==
    { after[i].v : i \in { j \in 1..Len(after) :
                              /\ after[j].v.to = destId
                              /\ (Has(before, after[j].k) => Get(before, after[j].k) # after[j].v) } }

\* C32: when a delta has set a connection to a destination, the lookup for
\* that destination returns a connection the delta set, and it returns what
\* the destination-to-source lookup of the variables returns.
C32_LatestAppliedWins ==
    calc.op = "resolve" =>
        /\ AppliedTo(calc.before.val, calc.after.val, calc.dest) # {} =>
               calc.found \in AppliedTo(calc.before.val, calc.after.val, calc.dest)
        /\ calc.found = destConnection(calc.after.val, calc.dest)

\* C32, what the lookup does: a connection to the destination that was
\* stored before the delta and is left unchanged by it is the one returned.
C32_EarliestStoredWins ==
    calc.op = "resolve" =>
        \A i \in 1..Len(calc.before.val) :
            /\ calc.before.val[i].v.to = calc.dest
            /\ \A j \in 1..(i - 1) : calc.before.val[j].v.to # calc.dest
            /\ Has(calc.after.val, calc.before.val[i].k)
            /\ Get(calc.after.val, calc.before.val[i].k) = calc.before.val[i].v
            => calc.found = calc.before.val[i].v

\* C32 witness: the map held one connection to the destination, the delta
\* added another, the lookup returns the older one and the variables' lookup
\* the newer one.
C32_Witness ==
    /\ calc.op = "resolve"
    /\ Len(calc.before.val) = 1
    /\ Len(calc.after.val) = 2
    /\ calc.found = calc.before.val[1].v
    /\ destConnection(calc.after.val, calc.dest) = calc.after.val[2].v
    /\ calc.after.val[2].v # calc.found

\* C33: within one episode the store is written in poll order.  The
\* subscription loop moves from one request to the next in one order only:
\* endpoint load, its setEndpoints, service load, its setConnections, the
\* callbacks, then per tick the endpoint poll and the service poll; a poll is
\* sent only when the answer to the one before it has been applied; the
\* endpoints are written only when the endpoint load or an endpoint poll
\* ends, the connections only when the service load or a service poll ends;
\* a polled delete of a stored connection is in the store when the tick ends.
C33_PollOrder ==
    [][/\ pc' # pc =>
            /\ pc' = "setEp" => pc = "createEp"
            /\ pc' = "createSvc" => pc = "setEp"
            /\ pc' = "setSvc" => pc = "createSvc"
            /\ pc' = "connect" => pc = "setSvc"
            /\ pc' = "pollEp" => pc \in {"connect", "sleep"}
            /\ pc' = "pollSvc" => pc = "pollEp" /\ tick'.epBody \in {"null", "empty", "delta"}
            /\ pc' = "sleep" => pc = "pollSvc" /\ tick'.svcBody \in {"null", "empty", "delta"}
       /\ (pc \in RegionPcs /\ pc' \in RegionPcs /\ endpointsRef' # endpointsRef) =>
            \/ pc = "setEp" /\ pc' = "createSvc"
            \/ pc = "pollEp" /\ pc' = "pollSvc"
       /\ (pc \in RegionPcs /\ pc' \in RegionPcs /\ connectionsRef' # connectionsRef) =>
            \/ pc = "setSvc" /\ pc' = "connect"
            \/ pc = "pollSvc" /\ pc' = "sleep"
       /\ (pc = "pollSvc" /\ pc' = "sleep" /\ Len(tick'.svcEntries) = 1) =>
            (tick'.svcEntries[1].e = DELETE_EVENT =>
                ~Has(connectionsRef'.val, tick'.svcEntries[1].key))
      ]_vars

\* C33 witness: a tick has ended in which the endpoint poll and then the
\* service poll each left another map in the store.
C33_Witness ==
    /\ pc = "sleep"
    /\ tick.epDiff
    /\ tick.connDiff
    /\ tick.epBody = "delta"
    /\ tick.svcBody = "delta"

\* C34: the parsers skip the entries that cannot be routed and keep the rest.
\* A full load stores exactly the entries whose direction tag is In, Out or
\* BiDirectional (endpoints), exactly the entries that have a from and a to
\* (connections); and in every map the store is given or returns, every
\* endpoint has endpointType src, dst or both, every connection has a
\* non-empty from and to, and every record is stored under its own id.
C34_ParsersKeepRoutableOnly ==
    /\ calc.op = "setEndpoints" =>
          Keys(calc.after.val) =
              { Default(calc.input.entries[i].gid, calc.input.entries[i].key) :
                  i \in { j \in 1..Len(calc.input.entries) :
                            /\ calc.input.entries[j].obj
                            /\ calc.input.entries[j].rawType \in {"In", "Out", "BiDirectional"} } }
    /\ calc.op = "setConnections" =>
          Keys(calc.after.val) =
              { Default(calc.input.entries[i].cid, calc.input.entries[i].key) :
                  i \in { j \in 1..Len(calc.input.entries) :
                            /\ calc.input.entries[j].obj
                            /\ calc.input.entries[j].from \notin {Absent, Null, ""}
                            /\ calc.input.entries[j].to \notin {Absent, Null, ""} } }
    /\ \A m \in {calc.before.val, calc.after.val, calc.again.val} :
          \A i \in 1..Len(m) :
              /\ m[i].k = m[i].v.id
              /\ IF "endpointType" \in DOMAIN m[i].v
                 THEN m[i].v.endpointType \in {"src", "dst", "both"}
                 ELSE /\ m[i].v.from \notin {Absent, Null, ""}
                      /\ m[i].v.to \notin {Absent, Null, ""}

\* C34 witness: a full load of two service entries, one of them without a
\* source, stored the other one only.
C34_Witness ==
    /\ calc.op = "setConnections"
    /\ Len(calc.input.entries) = 2
    /\ \E i \in 1..2 : calc.input.entries[i].from = ""
    /\ Len(calc.after.val) = 1

\* the runtimes that were made and whose dispose() has not been called
Undisposed == (1..host.made) \ host.stopping

\* C35: under overlapping lifecycle calls at most one runtime is alive, and
\* no runtime is dropped from this.runtime without dispose() having been
\* called on it: a runtime that was made is the one the field holds, or its
\* disposal has been asked for.
C35_NoRuntimeLost ==
    /\ Cardinality((1..host.made) \ host.disposed) <= 1
    /\ \A r \in Undisposed : r = host.ref

\* C35 witness: two configUpdated calls overlapped, both have returned, and
\* a runtime that nothing refers to was never disposed.
C35_Witness ==
    /\ host.calls[1].op = "configUpdated" /\ host.calls[1].stage = "done"
    /\ host.calls[2].op = "configUpdated" /\ host.calls[2].stage = "done"
    /\ host.calls[2].target = host.calls[1].target
    /\ \E r \in Undisposed : r # host.ref

\* C36: the backoff state belongs to the supervisor and is never reset.
\* While the supervisor is the same one, the count of failed episodes only
\* grows, by one and only when an episode ends in a failure; the delay then
\* scheduled is min(2^count, 30) seconds before jitter for the count of
\* failures before this one, whether or not the episode had been connected;
\* and the base delay never decreases.
C36_BackoffNeverReset ==
    [][host' = host =>
         /\ attempt' >= attempt
         /\ lastDelay' >= lastDelay
         /\ attempt' # attempt =>
               /\ attempt' = attempt + 1
               /\ pc \in {"login", "logout"} /\ pc' = "backoff"
               /\ lastDelay' = Min(Pow(2, attempt), 30)
         /\ (pc' = "backoff" /\ pc # "backoff") => attempt' = attempt + 1
      ]_vars

\* C36 witness: the second episode of a supervisor was connected, then
\* failed, and is retried after 2 seconds, not 1.
C36_Witness ==
    /\ pc = "backoff"
    /\ obs.connected >= 1
    /\ attempt = 2
    /\ lastDelay = 2

\* C37: the failure of an episode and its cleanup leave the store as it is.
\* The store is written only by setEndpoints, by setConnections and by the
\* step that applies a polled delta, so that from the failure of an episode
\* to the setEndpoints of the next one it holds the maps the failed episode
\* left; setEndpoints leaves the connections of the episode before in place
\* until setConnections replaces them; and a snapshot taken at any of these
\* moments is the pair of maps the store holds.
C37_FailureLeavesStore ==
    [][/\ storeVars' # storeVars =>
            \/ pc = "setEp" /\ pc' = "createSvc"
            \/ pc = "setSvc" /\ pc' = "connect"
            \/ pc = "pollEp" /\ pc' = "pollSvc"
            \/ pc = "pollSvc" /\ pc' = "sleep"
       /\ (pc = "setEp" /\ pc' = "createSvc") => connectionsRef' = connectionsRef
       /\ (snap' # snap /\ pc' = pc) =>
            /\ snap'.endpoints = endpointsRef.val
            /\ snap'.connections = connectionsRef.val
            /\ storeVars' = storeVars
      ]_vars

\* C37 witness: a snapshot taken after the setEndpoints of a later episode
\* and before its setConnections pairs the endpoints that episode loaded
\* with the connection the episode before it left.
C37_Witness ==
    /\ attempt >= 1
    /\ pc = "createSvc"
    /\ snap.stage = "done"
    /\ snap.endpoints = endpointsRef.val
    /\ snap.connections = connectionsRef.val
    /\ snap.endpoints = parseEndpoints(obs.epData)
    /\ Len(snap.connections) = 1

\* C38: the episodes of a supervisor follow one another.  A login is sent
\* only when the backoff wait that follows the end of the episode before has
\* elapsed, and then the client holds no session and the loop no
\* subscription id; the backoff wait starts only when a login has failed or
\* the logout of the cleanup has run, with the disconnected callback called
\* in that step and no session left; the cleanup runs its steps in the order
\* endpoint deletion, service deletion, logout, and the session is held
\* until the logout.
C38_EpisodesInSequence ==
    /\ [](pc = "login" => (session = NoSession /\ endpointSubId = Null /\ serviceSubId = Null))
    /\ [](pc \in CleanupPcs => session # NoSession)
    /\ [][(pc' # pc /\ host' = host) =>
            /\ pc' = "login" => pc = "backoff"
            /\ pc' = "backoff" =>
                  /\ pc \in {"login", "logout"}
                  /\ obs'.disconnected = Inc(obs.disconnected)
                  /\ session' = NoSession
            /\ pc' = "delEp" => pc \in RegionPcs
            /\ pc' = "delSvc" => pc = "delEp" /\ session' = session
            /\ pc' = "logout" => pc = "delSvc" /\ session' = session
            /\ pc' = "createEp" => pc = "loggedIn"
      ]_vars

\* C38 witness: an episode that held a session and both subscriptions has
\* failed; both deletions were sent, the logout has run, disconnected was
\* called and the loop waits before the next login.
C38_Witness ==
    /\ pc = "backoff"
    /\ obs.delAttempted = {"ep", "svc"}
    /\ obs.logout
    /\ obs.disconnected = 1
    /\ session = NoSession

\* C39: a 401 answered to a route or disconnect command changes nothing in
\* the supervisor.  The command ends with SessionExpiredError; the session,
\* the position of the loop, its subscription ids, its failure count and the
\* reported status are what they were; and the session changes only when a
\* login of the loop is answered, when the logout of its cleanup runs, or
\* when a lifecycle call starts or stops the runtime.
C39_CommandExpiryIgnored ==
    [][/\ (cmd.stage = "inflight" /\ cmd'.stage = "idle" /\ cmd'.answer.status = "401") =>
            /\ cmd'.outcome = Fail([tag |-> "SessionExpiredError", reason |-> "401", code |-> Absent])
            /\ session' = session
            /\ pc' = pc
            /\ status' = status
            /\ error' = error
            /\ UNCHANGED <<endpointSubId, serviceSubId, attempt, lastDelay, runtime, obs>>
       /\ session' # session =>
            \/ pc = "login" /\ cmd' = cmd
            \/ pc = "logout" /\ cmd' = cmd
            \/ runtime' # runtime
      ]_vars

\* C39 witness: a command was answered 401 while the loop was polling; the
\* loop polls on with the session it had and the status is still Ok.
C39_Witness ==
    /\ cmd.stage = "idle"
    /\ cmd.answer = [status |-> "401"]
    /\ cmd.outcome.err.tag = "SessionExpiredError"
    /\ session # NoSession
    /\ pc \in {"pollEp", "pollSvc", "sleep"}
    /\ status.s = "Ok"

\* C40: create then delete by payload key.  After a delta with a
\* create-or-replace entry under key k and a later delta with a delete-tagged
\* entry under k, the map holds none of the records the first delta stored.
C40_CreateThenDeleteByKey ==
    calc.op \in {"createDeleteEndpoint", "createDeleteConnection"} =>
        \A i \in 1..Len(calc.again.val) :
            (~Has(calc.before.val, calc.again.val[i].k)
             \/ Get(calc.before.val, calc.again.val[i].k) # calc.again.val[i].v)
            => ~(/\ Has(calc.after.val, calc.again.val[i].k)
                 /\ Get(calc.after.val, calc.again.val[i].k) = calc.again.val[i].v)

\* C40, what the appliers do: the delete removes the record stored under k,
\* so a record the create stored stays exactly when its id is not k.
C40_DeleteByStoredId ==
    calc.op \in {"createDeleteEndpoint", "createDeleteConnection"} =>
        Keys(calc.after.val) = Keys(calc.again.val) \ {calc.dest}

\* C40 witness: an entry under key x1 whose generic.id is e1 was applied to
\* the empty map, then x1 was deleted, and the record e1 is still stored.
C40_Witness ==
    /\ calc.op = "createDeleteEndpoint"
    /\ calc.before.val = <<>>
    /\ calc.dest = "x1"
    /\ Keys(calc.again.val) = {"e1"}
    /\ Keys(calc.after.val) = {"e1"}

====
